---------------------------- MODULE Spec2Model ----------------------------
(***************************************************************************)
(* A model of edgetts-js: the Communicate streaming engine                 *)
(* (communicate.ts), the DRM token clock (drm.ts) and the text chunker     *)
(* (utils.ts).                                                             *)
(*                                                                         *)
(* JavaScript runs one task at a time: a generator runs from one           *)
(* suspension point (await, yield) to the next without interruption.  The  *)
(* positions of the stream() generator are therefore split in two kinds:   *)
(* runnable ones, in which only the generator may step, and suspended      *)
(* ones, in which socket events, timers and callers may step.              *)
(***************************************************************************)
EXTENDS Integers, Sequences, FiniteSets, TLC

(***************************************************************************)
(* Bounds of the model.                                                    *)
(***************************************************************************)
\* the most chunks the text generator of one instance yields
MaxChunks == 2
\* the most frames the service sends, over all sockets of one instance
MaxFrames == 3
\* the most frames the service sends where it sends frames of every kind
MaxDemuxFrames == 4
\* the most stream() generators that begin executing on one instance
MaxCalls == 2
\* the most pieces an escaped string is put together from
MaxPieces == 4
\* the most subtitles passed to sortAndReindex
MaxSubs == 3
\* the most hours in a timestamp
MaxHours == 100
\* the most calls made on one SubMaker
MaxSubOps == 4
\* the last instant, in seconds, at which the clock is read
MaxTime == 600
\* the most skew adjustments and token derivations made
MaxDrmOps == 3
\* the longest rate, volume or pitch string given to the constructor
MaxOptLen == 4
\* the longest text given to splitTextByByteLength, in bytes
MaxLen == 5
\* the largest byteLength given to splitTextByByteLength
MaxBytes == 3
\* the longest text, in bytes, whose split is followed to its end
MaxLiveLen == 3

(***************************************************************************)
(* Program constants.                                                      *)
(***************************************************************************)
\* index.ts:337  this.state.offsetCompensation += 8_750_000
Padding == 8750000
\* drm.ts:88  ticks -= ticks % 300
BucketSeconds == 300
\* drm.ts:9  WIN_EPOCH = 11644473600 seconds, a multiple of 300, counted here
\* in 300-second buckets (11644473600 = 300 * 38814912)
WinEpochBuckets == 38814912

VARIABLES
  state,            \* Communicate.state: CommunicateState
  texts,            \* Communicate.texts: the chunks the generator has not yielded yet
  inv,              \* the stream()/save() invocations made on the instance
  active,           \* the invocation whose generator body is running (0 before)
  pc,               \* position of the running stream() generator
  inTry,            \* TRUE while streamInternal runs inside the try block of stream()
  thrown,           \* the error travelling out of streamInternal
  secMsGec,         \* streamInternal's local secMsGec
  socks,            \* every WebSocket created so far, with its session's closure state
  clockSkewSeconds, \* DRM.clockSkewSeconds
  now,              \* Date.now() / 1000 as last read
  drmLog,           \* history: the skew adjustments and token derivations made
  frameCount,       \* frames received so far
  lastFrame,        \* history: the frame handled last, its socket and its path
  delivered,        \* history: the items yielded to the caller, in order
  sent,             \* history: the messages sent with ws.send, in order
  tokens,           \* history: the tokens derived, in order
  io,               \* history: per invocation, the I/O operations it performed
  text,             \* splitTextByByteLength: the bytes of its argument text
  byteLength,       \* splitTextByByteLength: its argument byteLength
  data,             \* splitTextByByteLength: the bytes not yet split
  splitPc,          \* position of the splitTextByByteLength generator
  chunks,           \* history: the chunks yielded, in order
  spans,            \* history: where each yielded chunk lies in text (first, last)
  lastSplit,        \* history: the last turn's data, candidate and adjusted split point
  ctor,             \* the constructor call: its position, this.ttsConfig, what it threw
  cues,             \* SubMaker: this.cues
  kind,             \* SubMaker: this.type
  subLog,           \* history: the calls made on the SubMaker and what each left
  milliseconds,     \* timedeltaToSrtTimestamp: its argument
  stamp,            \* timedeltaToSrtTimestamp: what it returned, <<>> before the call
  subtitles,        \* sortAndReindex: the caller's subtitle objects, in the order passed
  args,             \* sortAndReindex: startIndex, inPlace and skip
  gen,              \* the sortAndReindex generator: position, sorted, subNum, skippedSubs
  passed,           \* history: the subtitle objects as they were when passed
  yielded,          \* history: the objects yielded, in order, as positions in subtitles
  xml               \* escapeXml and unescapeXml: the string, and what each returned

streamVars == <<state, texts, inv, active, pc, inTry, thrown, secMsGec, socks,
                frameCount, lastFrame, delivered, sent, tokens, io>>
drmVars == <<clockSkewSeconds, now, drmLog>>
splitVars == <<text, byteLength, data, splitPc, chunks, spans, lastSplit>>
ctorVars == <<ctor>>
subVars == <<cues, kind, subLog>>
stampVars == <<milliseconds, stamp>>
sortVars == <<subtitles, args, gen, passed, yielded>>
xmlVars == <<xml>>
libVars == <<subVars, stampVars, sortVars, xmlVars>>
vars == <<streamVars, drmVars, splitVars, ctorVars, libVars>>

(***************************************************************************)
(* Errors.  A WebSocketError carries whether its message includes '403'.   *)
(***************************************************************************)
Err(cls, has403) == [cls |-> cls, has403 |-> has403]
NoErr == Err("none", FALSE)
AlreadyStreamed == Err("AlreadyStreamed", FALSE)
WebSocketError(has403) == Err("WebSocketError", has403)
UnknownResponse == Err("UnknownResponse", FALSE)
UnexpectedResponse == Err("UnexpectedResponse", FALSE)
NoAudioReceived == Err("NoAudioReceived", FALSE)
JsError == Err("Error", FALSE)

\* `WebSocket closed with code ${event.code}`.includes('403'), for 4-digit codes
CodeIncludes403(code) == (code \div 10 = 403) \/ (code % 1000 = 403)
CloseCodes == {1000, 1006, 4403}

(***************************************************************************)
(* DRM                                                                     *)
(***************************************************************************)
\* DRM.getUnixTimestamp: wall clock plus skew
GetUnixTimestamp(wall, skew) == wall + skew

\* the skew overwritten
AdjustClockSkewSecondsOverwrite(skew, skewSeconds) == skewSeconds

\* DRM.adjustClockSkewSeconds: clockSkewSeconds += skewSeconds
AdjustClockSkewSeconds(skew, skewSeconds) == skew + skewSeconds

\* a Date header: absent, the empty string, text that new Date() cannot
\* parse, or a date, as its seconds since 1970
NoDate == [kind |-> "absent", secs |-> 0]
EmptyDate == [kind |-> "empty", secs |-> 0]
InvalidDateText == [kind |-> "invalid", secs |-> 0]
DateOf(secs) == [kind |-> "date", secs |-> secs]

\* text that cannot be parsed read as the epoch
ParseRFC2616DateEpoch(date) == [null |-> FALSE, secs |-> date.secs]

\* DRM.parseRFC2616Date: null when getTime() is NaN, else getTime() / 1000
ParseRFC2616Date(date) ==
  IF date.kind = "date" THEN [null |-> FALSE, secs |-> date.secs]
  ELSE [null |-> TRUE, secs |-> 0]

NoDateError == [cls |-> "Error", msg |-> "No server date in headers."]
ParseDateError == [cls |-> "Error", msg |-> "Failed to parse server date"]
NoDrmError == [cls |-> "none", msg |-> ""]

\* DRM.handleClientResponseError: the error thrown, if any, and the skew
\* after the call
HandleClientResponseError(headers, wall, skew) ==
  IF headers.kind \in {"absent", "empty"} THEN [err |-> NoDateError, skew |-> skew]
  ELSE IF ParseRFC2616Date(headers).null THEN [err |-> ParseDateError, skew |-> skew]
  ELSE [err |-> NoDrmError,
        skew |-> AdjustClockSkewSeconds(skew,
                   ParseRFC2616Date(headers).secs - GetUnixTimestamp(wall, skew))]

\* the skew left out of the time that is hashed
GenerateSecMsGecNoSkew(wall, skew) ==
  [sha256of |-> (wall \div BucketSeconds) + WinEpochBuckets]

\* DRM.generateSecMsGec: the hashed string is the tick count of the start of
\* the 300-second bucket of the skew-corrected time, followed by a fixed
\* client token; SHA-256 is kept symbolic, as the bucket it is applied to.
GenerateSecMsGec(wall, skew) ==
  [sha256of |-> (GetUnixTimestamp(wall, skew) \div BucketSeconds) + WinEpochBuckets]

\* the service's clock minus the local clock: one bucket ahead, the case in
\* which the service answers a token of the local bucket with 403
ServerAhead == BucketSeconds

(***************************************************************************)
(* Frames.  A text frame has a header end or not, a Path, and for          *)
(* audio.metadata a JSON body holding a list of records; a binary frame    *)
(* has a well-formed length prefix or not, a Path, a Content-Type and a    *)
(* payload length.                                                         *)
(***************************************************************************)
Rec(type, offset, duration) == [Type |-> type, Offset |-> offset, Duration |-> duration]

TextFrame(path, recs) ==
  [bin |-> FALSE, framed |-> TRUE, path |-> path, ctype |-> "undefined",
   payload |-> 0, json |-> TRUE, recs |-> recs]
BinFrame(path, ctype, payload) ==
  [bin |-> TRUE, framed |-> TRUE, path |-> path, ctype |-> ctype,
   payload |-> payload, json |-> TRUE, recs |-> <<>>]

\* the frames the service sends in the streaming specification
StreamFrames ==
  { TextFrame("audio.metadata", <<Rec("WordBoundary", 10000000, 5000000)>>),
    TextFrame("turn.end", <<>>),
    TextFrame("turn.start", <<>>),
    TextFrame("bogus", <<>>),
    BinFrame("audio", "audio/mpeg", 1) }

\* no frame yet
NoFrame == TextFrame("none", <<>>)

\* every kind of frame the handler tells apart: metadata frames by their
\* record lists, text frames by Path and header end, binary frames by length
\* prefix, Path, Content-Type and payload
AllFrames ==
  StreamFrames \cup
  { TextFrame("audio.metadata", <<Rec("SentenceBoundary", 0, 0)>>),
    TextFrame("audio.metadata", <<Rec("SessionEnd", 0, 0)>>),
    TextFrame("audio.metadata", <<Rec("SessionEnd", 0, 0), Rec("WordBoundary", 0, 5000000)>>),
    TextFrame("audio.metadata", <<Rec("WordBoundary", 10000000, 5000000),
                                  Rec("SentenceBoundary", 0, 0)>>),
    TextFrame("audio.metadata", <<Rec("SessionEnd", 0, 0), Rec("Viseme", 0, 0),
                                  Rec("WordBoundary", 0, 5000000)>>),
    TextFrame("response", <<>>),
    [TextFrame("turn.start", <<>>) EXCEPT !.framed = FALSE],
    BinFrame("audio", "audio/mpeg", 0),
    BinFrame("audio", "undefined", 0),
    BinFrame("audio", "undefined", 1),
    BinFrame("audio", "text/plain", 1),
    BinFrame("turn.end", "audio/mpeg", 1),
    [BinFrame("audio", "audio/mpeg", 1) EXCEPT !.framed = FALSE] }

\* records of an unknown type skipped like SessionEnd records
RECURSIVE ParseRecsSkip(_, _)
ParseRecsSkip(recs, offsetCompensation) ==
  IF recs = <<>> THEN [ok |-> FALSE, err |-> UnexpectedResponse]
  ELSE LET metaObj == Head(recs) IN
    IF metaObj.Type \in {"WordBoundary", "SentenceBoundary"}
    THEN [ok |-> TRUE,
          item |-> [type |-> metaObj.Type,
                    offset |-> metaObj.Offset + offsetCompensation,
                    duration |-> metaObj.Duration]]
    ELSE ParseRecsSkip(Tail(recs), offsetCompensation)

\* parseMetadata (index.ts:216-238): the item of the first boundary record,
\* or the error thrown
RECURSIVE ParseRecs(_, _)
ParseRecs(recs, offsetCompensation) ==
  IF recs = <<>> THEN [ok |-> FALSE, err |-> UnexpectedResponse]
  ELSE LET metaObj == Head(recs) IN
    IF metaObj.Type \in {"WordBoundary", "SentenceBoundary"}
    THEN [ok |-> TRUE,
          item |-> [type |-> metaObj.Type,
                    offset |-> metaObj.Offset + offsetCompensation,
                    duration |-> metaObj.Duration]]
    ELSE IF metaObj.Type = "SessionEnd"
    THEN ParseRecs(Tail(recs), offsetCompensation)
    ELSE [ok |-> FALSE, err |-> UnknownResponse]

\* the compensation left out of the offset
ParseMetadataRaw(f, offsetCompensation) ==
  IF ~f.json THEN [ok |-> FALSE, err |-> JsError]
  ELSE ParseRecs(f.recs, 0)

ParseMetadata(f, offsetCompensation) ==
  IF ~f.json THEN [ok |-> FALSE, err |-> JsError]
  ELSE ParseRecs(f.recs, offsetCompensation)

Push(item) == [act |-> "push", item |-> item, err |-> NoErr]
Reject(err) == [act |-> "reject", err |-> err]
Ignore == [act |-> "ignore"]
TurnEnd == [act |-> "turnEnd"]

\* a response frame taken for the end of the turn
OnTextMessageResponseEnds(f, offsetCompensation) ==
  IF ~f.framed THEN Reject(UnexpectedResponse)
  ELSE IF f.path = "audio.metadata" THEN
    LET parsedMetadata == ParseMetadata(f, offsetCompensation) IN
      IF parsedMetadata.ok THEN Push(parsedMetadata.item)
      ELSE Reject(parsedMetadata.err)
  ELSE IF f.path = "turn.end" \/ f.path = "response" THEN TurnEnd
  ELSE IF f.path # "turn.start" THEN Reject(UnknownResponse)
  ELSE Ignore

\* ws.onmessage, text branch (index.ts:308-347)
OnTextMessage(f, offsetCompensation) ==
  IF ~f.framed THEN Reject(UnexpectedResponse)
  ELSE IF f.path = "audio.metadata" THEN
    LET parsedMetadata == ParseMetadata(f, offsetCompensation) IN
      IF parsedMetadata.ok THEN Push(parsedMetadata.item)
      ELSE Reject(parsedMetadata.err)
  ELSE IF f.path = "turn.end" THEN TurnEnd
  ELSE IF f.path # "response" /\ f.path # "turn.start" THEN Reject(UnknownResponse)
  ELSE Ignore

\* the payload taken whenever there is one and the Content-Type is not wrong
OnBinaryMessageLenient(f) ==
  IF ~f.framed THEN Reject(UnexpectedResponse)
  ELSE IF f.path # "audio" THEN Reject(UnexpectedResponse)
  ELSE IF f.ctype # "audio/mpeg" /\ f.ctype # "undefined" THEN Reject(UnexpectedResponse)
  ELSE IF f.payload = 0 THEN Ignore
  ELSE Push([type |-> "audio"])

\* ws.onmessage, binary branch (index.ts:349-427)
OnBinaryMessage(f) ==
  IF ~f.framed THEN Reject(UnexpectedResponse)
  ELSE IF f.path # "audio" THEN Reject(UnexpectedResponse)
  ELSE IF f.ctype # "audio/mpeg" /\ f.ctype # "undefined" THEN Reject(UnexpectedResponse)
  ELSE IF f.ctype = "undefined" THEN
    (IF f.payload = 0 THEN Ignore ELSE Reject(UnexpectedResponse))
  ELSE IF f.payload = 0 THEN Reject(UnexpectedResponse)
  ELSE Push([type |-> "audio"])

OnMessage(f, offsetCompensation) ==
  IF f.bin THEN OnBinaryMessage(f) ELSE OnTextMessage(f, offsetCompensation)

(***************************************************************************)
(* The text chunker (utils.ts).  Bytes are numbers and, as in the code,    *)
(* positions count from 0.                                                 *)
(***************************************************************************)
NL == 10
SP == 32
TAB == 9
CR == 13
AMP == 38
SEMI == 59
LetterA == 97
\* the two bytes of U+00E9
Lead2 == 195
Cont == 169

At(bytes, i) == bytes[i + 1]
Slice(bytes, from, to) == SubSeq(bytes, from + 1, to)
SetMax(S) == CHOOSE m \in S : \A x \in S : x <= m

\* the loops of lines 70-75 and 79-84: the last index below limit holding byte
LastIndexBelow(bytes, limit, byte) ==
  LET hits == {i \in 0..(limit - 1) : i < Len(bytes) /\ At(bytes, i) = byte}
  IN IF hits = {} THEN -1 ELSE SetMax(hits)

FindLastNewlineOrSpaceWithinLimit(bytes, limit) ==
  LET splitAt == LastIndexBelow(bytes, limit, NL)
  IN IF splitAt < 0 THEN LastIndexBelow(bytes, limit, SP) ELSE splitAt

\* new TextDecoder().decode(...) at line 101: the decoder is not created
\* with fatal: true, so malformed input decodes to U+FFFD and nothing is thrown
DecodeThrows(bytes) == FALSE

RECURSIVE SafeSplitFrom(_, _)
SafeSplitFrom(textSegment, splitAt) ==
  IF splitAt > 0
  THEN IF ~DecodeThrows(Slice(textSegment, 0, splitAt)) THEN splitAt
       ELSE SafeSplitFrom(textSegment, splitAt - 1)
  ELSE splitAt

FindSafeUtf8SplitPoint(textSegment) == SafeSplitFrom(textSegment, Len(textSegment))

\* the split point left where it was found
AdjustSplitPointNever(bytes, splitAt) == splitAt

RECURSIVE AdjustSplitPointForXmlEntity(_, _)
AdjustSplitPointForXmlEntity(bytes, splitAt) ==
  IF splitAt > 0
  THEN LET ampersandIndex == LastIndexBelow(bytes, splitAt, AMP)
           hasSemicolon == \E i \in (ampersandIndex + 1)..(splitAt - 1) :
                              At(bytes, i) = SEMI
       IN IF ampersandIndex = -1 \/ hasSemicolon THEN splitAt
          ELSE AdjustSplitPointForXmlEntity(bytes, ampersandIndex)
  ELSE splitAt

\* a tab not taken for whitespace
IsWhitespaceNoTab(b) == b = SP \/ b = NL \/ b = CR

IsWhitespace(b) == b = SP \/ b = TAB \/ b = NL \/ b = CR

RECURSIVE TrimStart(_, _, _)
TrimStart(bytes, start, end) ==
  IF start < end /\ IsWhitespace(At(bytes, start)) THEN TrimStart(bytes, start + 1, end)
  ELSE start

RECURSIVE TrimEnd(_, _, _)
TrimEnd(bytes, start, end) ==
  IF end > start /\ IsWhitespace(At(bytes, end - 1)) THEN TrimEnd(bytes, start, end - 1)
  ELSE end

\* trimWhitespace (lines 204-217) as the bounds it slices at
TrimBounds(bytes) ==
  LET start == TrimStart(bytes, 0, Len(bytes))
  IN [start |-> start, end |-> TrimEnd(bytes, start, Len(bytes))]

TrimWhitespace(bytes) == Slice(bytes, TrimBounds(bytes).start, TrimBounds(bytes).end)

\* a cut at the limit where no newline or space is found
CandidateSplitHardCut(bytes, limit) ==
  LET splitAt == FindLastNewlineOrSpaceWithinLimit(bytes, limit)
  IN IF splitAt < 0 THEN limit ELSE splitAt

\* lines 167-175: the split point of one turn of the loop
CandidateSplit(bytes, limit) ==
  LET splitAt == FindLastNewlineOrSpaceWithinLimit(bytes, limit)
  IN IF splitAt < 0 THEN FindSafeUtf8SplitPoint(bytes) ELSE splitAt

\* line 184
ChunkOf(bytes, splitAt) == Slice(bytes, 0, splitAt)

\* data.slice(splitAt), whatever splitAt is
AdvanceBySplit(splitAt) == splitAt

\* line 191: the bytes dropped from the head of data
Advance(splitAt) == IF splitAt > 0 THEN splitAt ELSE 1

\* the bytes of data already taken off text
consumed == Len(text) - Len(data)

\* yield trimmedChunk, if it is not empty
Yield(piece) ==
  LET b == TrimBounds(piece)
  IN IF TrimWhitespace(piece) # <<>>
     THEN /\ chunks' = Append(chunks, TrimWhitespace(piece))
          /\ spans' = Append(spans, <<consumed + b.start + 1, consumed + b.end>>)
     ELSE UNCHANGED <<chunks, spans>>

\* the texts a JavaScript string encodes to: well-formed UTF-8
RECURSIVE ValidUtf8(_)
ValidUtf8(bytes) ==
  IF bytes = <<>> THEN TRUE
  ELSE IF Head(bytes) = Lead2
       THEN Len(bytes) >= 2 /\ bytes[2] = Cont /\ ValidUtf8(SubSeq(bytes, 3, Len(bytes)))
       ELSE Head(bytes) # Cont /\ ValidUtf8(Tail(bytes))

Alphabet == {LetterA, SP, NL, TAB, AMP, SEMI, Lead2, Cont}
Texts == UNION {{t \in [1..n -> Alphabet] : ValidUtf8(t)} : n \in 0..MaxLen}

SplitIdle ==
  /\ text = <<>>
  /\ byteLength = 1
  /\ data = <<>>
  /\ splitPc = "idle"
  /\ chunks = <<>>
  /\ spans = <<>>
  /\ lastSplit = [of |-> <<>>, cand |-> 0, adj |-> 0]

\* a call of splitTextByByteLength(text, byteLength)
SplitInit ==
  /\ text \in Texts
  /\ byteLength \in 0..MaxBytes
  /\ data = text
  /\ splitPc = "start"
  /\ chunks = <<>>
  /\ spans = <<>>
  /\ lastSplit = [of |-> <<>>, cand |-> 0, adj |-> 0]

\* lines 159-163
SplitBegin ==
  /\ splitPc = "start"
  /\ splitPc' = IF byteLength <= 0 THEN "failed" ELSE "loop"
  /\ UNCHANGED <<text, byteLength, data, chunks, spans, lastSplit, streamVars, drmVars, ctorVars, libVars>>

\* lines 165-192: one turn of while (data.length > byteLength)
SplitTurn ==
  /\ splitPc = "loop"
  /\ Len(data) > byteLength
  /\ LET cand == CandidateSplit(data, byteLength)
         splitAt == AdjustSplitPointForXmlEntity(data, cand)
     IN /\ lastSplit' = [of |-> data, cand |-> cand, adj |-> splitAt]
        /\ IF splitAt < 0
           THEN /\ splitPc' = "failed"
                /\ UNCHANGED <<data, chunks, spans>>
           ELSE /\ Yield(ChunkOf(data, splitAt))
                /\ data' = Slice(data, Advance(splitAt), Len(data))
                /\ UNCHANGED splitPc
  /\ UNCHANGED <<text, byteLength, streamVars, drmVars, ctorVars, libVars>>

\* lines 194-198: the remaining part
SplitRest ==
  /\ splitPc = "loop"
  /\ Len(data) <= byteLength
  /\ Yield(data)
  /\ data' = <<>>
  /\ splitPc' = "done"
  /\ UNCHANGED <<text, byteLength, lastSplit, streamVars, drmVars, ctorVars, libVars>>

(***************************************************************************)
(* The constructor (index.ts:107-211).  A rate, volume or pitch is a       *)
(* sequence of characters.  A voice is a sequence of pieces: runs of       *)
(* letters, '-', the fixed head of the long form, ', ' and ')'.            *)
(***************************************************************************)
Strings(chars, n) == UNION {[1..k -> chars] : k \in 0..n}

Digits == {"0", "1", "2", "3", "4", "5", "6", "7", "8", "9"}
Signs == {"+", "-"}

\* /[+-]\d+%$/ : the pattern without its ^
RatePatternUnanchored(str) ==
  \E from \in 1..Len(str) :
    /\ Len(str) - from >= 2
    /\ str[from] \in Signs
    /\ str[Len(str)] = "%"
    /\ \A k \in (from + 1)..(Len(str) - 1) : str[k] \in Digits

\* line 140 and 145: /^[+-]\d+%$/
RatePattern(str) ==
  /\ Len(str) >= 3
  /\ str[1] \in Signs
  /\ str[Len(str)] = "%"
  /\ \A k \in 2..(Len(str) - 1) : str[k] \in Digits

\* line 150: /^[+-]\d+Hz$/
PitchPattern(str) ==
  /\ Len(str) >= 4
  /\ str[1] \in Signs
  /\ str[Len(str) - 1] = "H" /\ str[Len(str)] = "z"
  /\ \A k \in 2..(Len(str) - 2) : str[k] \in Digits

\* 'Microsoft Server Speech Text to Speech Voice ('
VoiceHead == "Microsoft Server Speech Text to Speech Voice ("

\* pieces matching [a-z]{2,}, [A-Z]{2,}, and ending in Neural
LowerRuns == {"en", "zh", "us", "invalid", "voice", "liaoning"}
UpperRuns == {"US", "CN"}
NeuralNames == {"EmmaMultilingualNeural", "JennyNeural", "XiaobeiNeural"}

\* constants.ts:11
DefaultVoice == <<"en", "-", "US", "-", "EmmaMultilingualNeural">>

\* the voices given to the constructor
Voices ==
  { DefaultVoice,
    <<"en", "-", "US", "-", "JennyNeural">>,
    <<"zh", "-", "CN", "-", "liaoning", "-", "XiaobeiNeural">>,
    <<VoiceHead, "en", "-", "US", ", ", "JennyNeural", ")">>,
    <<VoiceHead, "en", "-", "US", ")">>,
    <<"invalid", "-", "voice">>,
    <<"en", "-", "us", "-", "JennyNeural">>,
    <<"en", "-", "US", "-", "Jenny">>,
    <<>> }

\* line 111: /^([a-z]{2,})-([A-Z]{2,})-(.+Neural)$/
ShortVoicePattern(voice) ==
  /\ Len(voice) >= 5
  /\ voice[1] \in LowerRuns /\ voice[2] = "-"
  /\ voice[3] \in UpperRuns /\ voice[4] = "-"
  /\ voice[Len(voice)] \in NeuralNames

\* line 126: /^Microsoft Server Speech Text to Speech Voice \(.+,.+\)$/
VoicePattern(voice) ==
  /\ Len(voice) >= 4
  /\ voice[1] = VoiceHead /\ voice[Len(voice)] = ")"
  /\ \E k \in 3..(Len(voice) - 1) : voice[k] = ", "

\* validateVoice (lines 110-132): the long form of the voice, or a throw
ValidateVoice(voice) ==
  IF ShortVoicePattern(voice)
  THEN LET lang == voice[1]
           name == SubSeq(voice, 5, Len(voice))
           region == IF Len(name) > 1 THEN <<voice[3], "-", name[1]>> ELSE <<voice[3]>>
           rest == IF Len(name) > 1 THEN SubSeq(name, 3, Len(name)) ELSE name
       IN [ok |-> TRUE,
           voice |-> <<VoiceHead, lang, "-">> \o region \o <<", ">> \o rest \o <<")">>]
  ELSE IF ~VoicePattern(voice) THEN [ok |-> FALSE, voice |-> voice]
  ELSE [ok |-> TRUE, voice |-> voice]

InvalidVoice == Err("Error: Invalid voice", FALSE)
InvalidRate == Err("Error: Invalid rate", FALSE)
InvalidVolume == Err("Error: Invalid volume", FALSE)
InvalidPitch == Err("Error: Invalid pitch", FALSE)
TextTypeError == Err("TypeError: text must be string", FALSE)

\* lines 174-180: the options not given
DefaultConfig ==
  [voice |-> DefaultVoice, rate |-> <<"+", "0", "%">>, volume |-> <<"+", "0", "%">>,
   pitch |-> <<"+", "0", "H", "z">>]

\* a call of the constructor that has not validated anything yet
CtorBegin == ctor = [pc |-> "validateVoice", ttsConfig |-> DefaultConfig, err |-> NoErr]

\* the constructor has returned an instance built with the default options
CtorDone ==
  ctor = [pc |-> "constructed",
          ttsConfig |-> [DefaultConfig EXCEPT !.voice = ValidateVoice(DefaultVoice).voice],
          err |-> NoErr]

\* one field of the options is read, stored in ttsConfig and validated; the
\* fields are independent, so each is drawn where it is validated
\* lines 175 and 138
CtorVoice ==
  /\ ctor.pc = "validateVoice"
  /\ \E voice \in Voices :
       LET v == ValidateVoice(voice)
       IN ctor' = IF v.ok
                  THEN [ctor EXCEPT !.pc = "validateRate", !.ttsConfig.voice = v.voice]
                  ELSE [ctor EXCEPT !.pc = "threw", !.ttsConfig.voice = voice,
                                    !.err = InvalidVoice]
  /\ UNCHANGED <<streamVars, drmVars, splitVars, libVars>>

\* lines 176 and 140-143
CtorRate ==
  /\ ctor.pc = "validateRate"
  /\ \E rate \in Strings({"+", "0", "%"}, MaxOptLen) :
       ctor' = IF RatePattern(rate)
               THEN [ctor EXCEPT !.pc = "validateVolume", !.ttsConfig.rate = rate]
               ELSE [ctor EXCEPT !.pc = "threw", !.ttsConfig.rate = rate,
                                 !.err = InvalidRate]
  /\ UNCHANGED <<streamVars, drmVars, splitVars, libVars>>

\* lines 177 and 145-148
CtorVolume ==
  /\ ctor.pc = "validateVolume"
  /\ \E volume \in Strings({"-", "0", "%"}, MaxOptLen) :
       ctor' = IF RatePattern(volume)
               THEN [ctor EXCEPT !.pc = "validatePitch", !.ttsConfig.volume = volume]
               ELSE [ctor EXCEPT !.pc = "threw", !.ttsConfig.volume = volume,
                                 !.err = InvalidVolume]
  /\ UNCHANGED <<streamVars, drmVars, splitVars, libVars>>

\* lines 178 and 150-153
CtorPitch ==
  /\ ctor.pc = "validatePitch"
  /\ \E pitch \in Strings({"+", "0", "H", "z"}, MaxOptLen) :
       ctor' = IF PitchPattern(pitch)
               THEN [ctor EXCEPT !.pc = "checkText", !.ttsConfig.pitch = pitch]
               ELSE [ctor EXCEPT !.pc = "threw", !.ttsConfig.pitch = pitch,
                                 !.err = InvalidPitch]
  /\ UNCHANGED <<streamVars, drmVars, splitVars, libVars>>

\* lines 184-210: the type of text is checked, the chunk generator made and
\* the state initialised; the instance exists when the constructor returns
CtorText ==
  /\ ctor.pc = "checkText"
  /\ \E textIsString \in BOOLEAN :
       ctor' = IF textIsString THEN [ctor EXCEPT !.pc = "constructed"]
               ELSE [ctor EXCEPT !.pc = "threw", !.err = TextTypeError]
  /\ UNCHANGED <<streamVars, drmVars, splitVars, libVars>>

(***************************************************************************)
(* SubMaker                                                                *)
(***************************************************************************)
\* x / 1000: the divisor of another unit
MsOfThousandth(x) == [whole |-> x \div 1000, frac |-> x % 1000]

\* x / 10000, lines 36-37: the quotient as a decimal number, its whole
\* milliseconds and its ten-thousandths
MsOf(x) == [whole |-> x \div 10000, frac |-> x % 10000]

\* an index is null or a number
NullIndex == <<>>
IndexOf(n) == <<n>>

\* new SubtitleClass(index, start, end, content)
SubtitleClass(index, start, end, content) ==
  [index |-> index, start |-> start, end |-> end, content |-> content]

\* the check of line 29 left out
TypeMismatchNever(held, msg) == FALSE

\* line 29: a type is recorded and the message is of the other one
TypeMismatch(held, msg) == held # "null" /\ held # msg.type

NoSubError == [cls |-> "none", msg |-> ""]
InvalidTypeError ==
  [cls |-> "Error", msg |-> "Invalid message type, expected 'WordBoundary' or 'SentenceBoundary'."]
MismatchError == [cls |-> "Error", msg |-> "Expected message type, but got"]

\* the messages fed: the chunks a stream yields
AudioChunk == [type |-> "audio", offset |-> 0, duration |-> 0, text |-> <<>>]
BoundaryChunks ==
  [type : {"WordBoundary", "SentenceBoundary"}, offset : {0, 12345, 10000000},
   duration : {1, 5000000}, text : {<<"a">>}]
NoChunk == [type |-> "none", offset |-> 0, duration |-> 0, text |-> <<>>]

SubIdle == cues = <<>> /\ kind = "null" /\ subLog = <<>>

(***************************************************************************)
(* srt-composer                                                            *)
(***************************************************************************)
SECONDS_IN_HOUR == 3600
SECONDS_IN_MINUTE == 60
HOURS_IN_DAY == 24

\* a number of whole milliseconds
Whole(n) == [whole |-> n, frac |-> 0]

\* the % of JavaScript: the remainder has the sign of the dividend
JsMod(a, b) == IF a >= 0 THEN a % b ELSE 0 - ((0 - a) % b)

DigitChars == <<"0", "1", "2", "3", "4", "5", "6", "7", "8", "9">>

\* Number.prototype.toString of an integer
RECURSIVE NatToString(_)
NatToString(n) ==
  IF n < 10 THEN <<DigitChars[n + 1]>>
  ELSE NatToString(n \div 10) \o <<DigitChars[(n % 10) + 1]>>

IntToString(n) == IF n < 0 THEN <<"-">> \o NatToString(0 - n) ELSE NatToString(n)

\* the digits after the point of a decimal number with ten-thousandths:
\* four places without the trailing zeros
RECURSIVE DropTrailingZeros(_)
DropTrailingZeros(str) ==
  IF str # <<>> /\ str[Len(str)] = "0" THEN DropTrailingZeros(SubSeq(str, 1, Len(str) - 1))
  ELSE str

RECURSIVE PadStart(_, _, _)
\* String.prototype.padStart(targetLength, padString) with a one-character pad
PadStart(str, targetLength, pad) ==
  IF Len(str) >= targetLength THEN str ELSE PadStart(<<pad>> \o str, targetLength, pad)

\* a number as toString() writes it: an integer, or a decimal with a point
NumberToString(whole, frac) ==
  IF frac = 0 THEN IntToString(whole)
  ELSE IntToString(whole) \o <<".">> \o DropTrailingZeros(PadStart(NatToString(frac), 4, "0"))

\* the hours wrapped at a day
HoursOfWrapped(totalSeconds) == (totalSeconds \div SECONDS_IN_HOUR) % HOURS_IN_DAY

\* line 130: hrs
HoursOf(totalSeconds) == totalSeconds \div SECONDS_IN_HOUR

\* timedeltaToSrtTimestamp, lines 128-137
TimedeltaToSrtTimestamp(ms) ==
  LET totalSeconds == ms.whole \div 1000
      hrs == HoursOf(totalSeconds)
      secsRemainder == JsMod(totalSeconds, SECONDS_IN_HOUR)
      mins == secsRemainder \div SECONDS_IN_MINUTE
      secs == JsMod(secsRemainder, SECONDS_IN_MINUTE)
      msecsWhole == JsMod(ms.whole, 1000)
  IN PadStart(IntToString(hrs), 2, "0") \o <<":">> \o
     PadStart(IntToString(mins), 2, "0") \o <<":">> \o
     PadStart(IntToString(secs), 2, "0") \o <<",">> \o
     PadStart(NumberToString(msecsWhole, ms.frac), 3, "0")

\* the arguments: the first, a middle and the last value of each field, with
\* hours below, at and beyond a day
StampInputs ==
  {((h * SECONDS_IN_HOUR + m * SECONDS_IN_MINUTE + sec) * 1000) + k :
     h \in {0, 1, HOURS_IN_DAY, MaxHours}, m \in {0, 1, 59}, sec \in {0, 1, 5, 59},
     k \in {0, 500, 999}}

StampIdle == milliseconds = Whole(0) /\ stamp = <<>>

\* a call of timedeltaToSrtTimestamp
Stamp ==
  /\ stamp = <<>>
  /\ stamp' = TimedeltaToSrtTimestamp(milliseconds)
  /\ UNCHANGED <<milliseconds, subVars, sortVars, xmlVars, streamVars, drmVars, splitVars, ctorVars>>

\* the value of a decimal number in ten-thousandths of a millisecond
TicksOf(ms) == ms.whole * 10000 + ms.frac

\* this.index ?? 0
IndexOrZero(index) == IF index = NullIndex THEN 0 ELSE index[1]

\* SubtitleClass.compareTo, lines 98-102: negative, zero or positive
CompareTo(this, other) ==
  IF this.start # other.start THEN TicksOf(this.start) - TicksOf(other.start)
  ELSE IF this.end # other.end THEN TicksOf(this.end) - TicksOf(other.end)
  ELSE IndexOrZero(this.index) - IndexOrZero(other.index)

\* Array.prototype.sort with compareTo: a stable sort, here by insertion of
\* each object behind those that do not compare greater
RECURSIVE InsertSorted(_, _, _)
InsertSorted(objs, done, ref) ==
  IF done = <<>> THEN <<ref>>
  ELSE IF CompareTo(objs[done[Len(done)]], objs[ref]) <= 0 THEN Append(done, ref)
  ELSE Append(InsertSorted(objs, SubSeq(done, 1, Len(done) - 1), ref), done[Len(done)])

RECURSIVE SortRefs(_, _)
SortRefs(objs, n) ==
  IF n = 0 THEN <<>> ELSE InsertSorted(objs, SortRefs(objs, n - 1), n)

WhiteSpace == {" ", "\n", "\t"}

\* String.prototype.trim
RECURSIVE Trim(_)
Trim(str) ==
  IF str = <<>> THEN str
  ELSE IF str[1] \in WhiteSpace THEN Trim(Tail(str))
  ELSE IF str[Len(str)] \in WhiteSpace THEN Trim(SubSeq(str, 1, Len(str) - 1))
  ELSE str

\* start > end in place of start >= end
StartNotBeforeEndStrict(sub) == TicksOf(sub.start) > TicksOf(sub.end)

\* line 23: sub.start >= sub.end
StartNotBeforeEnd(sub) == TicksOf(sub.start) >= TicksOf(sub.end)

\* SUBTITLE_SKIP_CONDITIONS and shouldSkipSub, lines 20-24 and 155-161
ShouldSkipSub(sub) ==
  \/ Trim(sub.content) = <<>>
  \/ TicksOf(sub.start) < 0
  \/ StartNotBeforeEnd(sub)

\* the skipped subtitles not counted
NewIndexUncounted(subNum, skippedSubs) == subNum

\* line 225: subNum - skippedSubs
NewIndex(subNum, skippedSubs) == subNum - skippedSubs

\* lines 191-223 up to the next subtitle that is not skipped: its place in
\* sorted, Len(sorted) + 1 if there is none, and skippedSubs
RECURSIVE NextKept(_, _, _, _, _)
NextKept(objs, sorted, skip, place, skippedSubs) ==
  IF place > Len(sorted) THEN [place |-> place, skippedSubs |-> skippedSubs]
  ELSE IF skip /\ ShouldSkipSub(objs[sorted[place]])
       THEN NextKept(objs, sorted, skip, place + 1, skippedSubs + 1)
  ELSE [place |-> place, skippedSubs |-> skippedSubs]

\* lines 194-206: the fields of the copy written back to the object
CopyBack(sub) ==
  LET copy == SubtitleClass(sub.index, sub.start, sub.end, sub.content)
  IN [sub EXCEPT !.index = copy.index, !.start = copy.start,
                 !.end = copy.end, !.content = copy.content]

\* the subtitles passed: two that tie on start and end, one of them without
\* index, one that starts at 0, and one for each way to be skipped
SubtitleSet ==
  {SubtitleClass(IndexOf(1), Whole(1000), Whole(2000), <<"a">>),
   SubtitleClass(NullIndex, Whole(1000), Whole(2000), <<"a">>),
   SubtitleClass(IndexOf(7), Whole(0), Whole(1500), <<" ", "a", " ">>),
   SubtitleClass(IndexOf(2), Whole(2000), Whole(3000), <<>>),
   SubtitleClass(IndexOf(4), Whole(500), Whole(1500), <<" ", "\n">>),
   SubtitleClass(IndexOf(1), Whole(0 - 1), Whole(1000), <<"a">>),
   SubtitleClass(IndexOf(2), Whole(3000), Whole(2000), <<"a">>),
   SubtitleClass(IndexOf(6), Whole(1000), Whole(1000), <<"a">>)}

NoGen == [pc |-> "idle", sorted |-> <<>>, place |-> 0, skippedSubs |-> 0]

SortIdle ==
  /\ subtitles = <<>> /\ passed = <<>> /\ yielded = <<>>
  /\ args = [startIndex |-> 1, inPlace |-> FALSE, skip |-> TRUE]
  /\ gen = NoGen

\* sortAndReindex(subtitles, startIndex, inPlace, skip) called: the generator
\* is created and has not run
SortCalled ==
  /\ subtitles \in UNION {[1..n -> SubtitleSet] : n \in 0..MaxSubs}
  /\ passed = subtitles
  /\ args \in [startIndex : {1, 5}, inPlace : BOOLEAN, skip : BOOLEAN]
  /\ gen = [pc |-> "suspendedStart", sorted |-> <<>>, place |-> 0, skippedSubs |-> 0]
  /\ yielded = <<>>

\* next() on the generator, lines 188-227: the first call sorts; each call
\* runs to the next yield or to the end
SortNext ==
  /\ gen.pc \in {"suspendedStart", "suspendedYield"}
  /\ LET sorted == IF gen.pc = "suspendedStart" THEN SortRefs(subtitles, Len(subtitles))
                    ELSE gen.sorted
         to == NextKept(subtitles, sorted, args.skip, gen.place + 1, gen.skippedSubs)
         subNum == args.startIndex + to.place - 1
     IN IF to.place > Len(sorted)
        THEN /\ gen' = [pc |-> "done", sorted |-> sorted, place |-> to.place,
                        skippedSubs |-> to.skippedSubs]
             /\ UNCHANGED <<subtitles, yielded>>
        ELSE /\ gen' = [pc |-> "suspendedYield", sorted |-> sorted, place |-> to.place,
                        skippedSubs |-> to.skippedSubs]
             /\ subtitles' =
                  [subtitles EXCEPT ![sorted[to.place]] =
                     [(IF args.inPlace THEN @ ELSE CopyBack(@)) EXCEPT !.index =
                        IndexOf(NewIndex(subNum, to.skippedSubs))]]
             /\ yielded' = Append(yielded, sorted[to.place])
  /\ UNCHANGED <<args, passed, subVars, stampVars, xmlVars, streamVars, drmVars, splitVars, ctorVars>>

(***************************************************************************)
(* escapeXml and unescapeXml                                               *)
(***************************************************************************)
\* does pat occur in str at place k
OccursAt(str, pat, k) ==
  k + Len(pat) - 1 <= Len(str) /\ SubSeq(str, k, k + Len(pat) - 1) = pat

\* String.prototype.replace with a global pattern of literal characters:
\* every occurrence, from the left, none overlapping
RECURSIVE ReplaceAll(_, _, _)
ReplaceAll(str, pat, by) ==
  IF str = <<>> THEN <<>>
  ELSE IF OccursAt(str, pat, 1)
       THEN by \o ReplaceAll(SubSeq(str, Len(pat) + 1, Len(str)), pat, by)
  ELSE <<Head(str)>> \o ReplaceAll(Tail(str), pat, by)

AmpEntity == <<"&", "a", "m", "p", ";">>
LtEntity == <<"&", "l", "t", ";">>
GtEntity == <<"&", "g", "t", ";">>
QuotEntity == <<"&", "q", "u", "o", "t", ";">>
AposEntity == <<"&", "a", "p", "o", "s", ";">>

\* escapeXml, lines 277-284
EscapeXml(str) ==
  ReplaceAll(ReplaceAll(ReplaceAll(ReplaceAll(ReplaceAll(str,
    <<"&">>, AmpEntity), <<"<">>, LtEntity), <<">">>, GtEntity),
    <<"\"">>, QuotEntity), <<"'">>, AposEntity)

\* &amp; replaced first
UnescapeXmlAmpFirst(str) ==
  ReplaceAll(ReplaceAll(ReplaceAll(ReplaceAll(ReplaceAll(str,
    AmpEntity, <<"&">>), AposEntity, <<"'">>), QuotEntity, <<"\"">>),
    GtEntity, <<">">>), LtEntity, <<"<">>)

\* unescapeXml, lines 289-296
UnescapeXml(str) ==
  ReplaceAll(ReplaceAll(ReplaceAll(ReplaceAll(ReplaceAll(str,
    AposEntity, <<"'">>), QuotEntity, <<"\"">>), GtEntity, <<">">>),
    LtEntity, <<"<">>), AmpEntity, <<"&">>)

\* the pieces the strings are put together from: the five characters that
\* are escaped, ';', and the names of entities
Pieces ==
  {<<"&">>, <<"<">>, <<">">>, <<"\"">>, <<"'">>, <<";">>,
   <<"a", "m", "p">>, <<"l", "t">>, <<"a", "p", "o", "s">>}

RECURSIVE Strung(_)
\* the strings of up to n pieces
Strung(n) ==
  IF n = 0 THEN {<<>>}
  ELSE Strung(n - 1) \cup {str \o piece : str \in Strung(n - 1), piece \in Pieces}

NotYet == <<"not called">>

XmlIdle == xml = [str |-> <<>>, escaped |-> NotYet, unescaped |-> NotYet]

\* escapeXml(str)
Escape ==
  /\ xml.escaped = NotYet
  /\ xml' = [xml EXCEPT !.escaped = EscapeXml(xml.str)]
  /\ UNCHANGED <<subVars, stampVars, sortVars, streamVars, drmVars, splitVars, ctorVars>>

\* unescapeXml applied to what escapeXml returned
Unescape ==
  /\ xml.escaped # NotYet /\ xml.unescaped = NotYet
  /\ xml' = [xml EXCEPT !.unescaped = UnescapeXml(xml.escaped)]
  /\ UNCHANGED <<subVars, stampVars, sortVars, streamVars, drmVars, splitVars, ctorVars>>

LibIdle == SubIdle /\ StampIdle /\ SortIdle /\ XmlIdle

Logged(op, msg, err) ==
  subLog' = Append(subLog, [op |-> op, msg |-> msg, err |-> err, cues |-> cues', type |-> kind'])

\* SubMaker.feed, lines 20-47
Feed(msg) ==
  /\ Len(subLog) < MaxSubOps
  /\ IF msg.type # "WordBoundary" /\ msg.type # "SentenceBoundary"
     THEN /\ UNCHANGED <<cues, kind>>
          /\ Logged("feed", msg, InvalidTypeError)
     ELSE IF TypeMismatch(kind, msg)
     THEN /\ UNCHANGED <<cues, kind>>
          /\ Logged("feed", msg, MismatchError)
     ELSE /\ kind' = msg.type
          /\ cues' = Append(cues, SubtitleClass(IndexOf(Len(cues) + 1), MsOf(msg.offset),
                                                MsOf(msg.offset + msg.duration), msg.text))
          /\ Logged("feed", msg, NoSubError)
  /\ UNCHANGED <<stampVars, sortVars, xmlVars, streamVars, drmVars, splitVars, ctorVars>>

\* SubMaker.clear, lines 68-71
Clear ==
  /\ Len(subLog) < MaxSubOps
  /\ cues' = <<>>
  /\ kind' = "null"
  /\ Logged("clear", NoChunk, NoSubError)
  /\ UNCHANGED <<stampVars, sortVars, xmlVars, streamVars, drmVars, splitVars, ctorVars>>

(***************************************************************************)
(* The instance and its callers.                                           *)
(***************************************************************************)
\* Invocation k is the k-th stream() generator to begin executing.  save()
\* (lines 512-520) is a stream() invocation whose caller asks for the next
\* item as soon as it has one.
Invocations == 1..MaxCalls

Chunks == 1..MaxChunks
TextsOf(n) == [k \in 1..n |-> k]

NewSock(chunk, retry, gec) ==
  [ws |-> "connecting", handlers |-> FALSE, queue |-> <<>>, promise |-> "none",
   perr |-> NoErr, audioWasReceived |-> FALSE, chunk |-> chunk, retry |-> retry,
   gec |-> gec, accepted |-> <<>>]

cur == Len(socks)

\* positions in which the generator runs on without yielding control
Runnable == pc \in {"forHead", "sessStart", "loopHead", "drain", "raise"}

DidIO(k) == io' = [io EXCEPT ![active] = @ + k]

\* Communicate constructor (index.ts:172-211); DRM.clockSkewSeconds = 0.0
StreamInit ==
  /\ state = [partialText |-> 0, offsetCompensation |-> 0,
              lastDurationOffset |-> 0, streamWasCalled |-> FALSE]
  /\ \E n \in 0..MaxChunks : texts = TextsOf(n)
  /\ inv = [i \in Invocations |-> [pc |-> "created", err |-> NoErr]]
  /\ active = 0
  /\ pc = "notStarted"
  /\ inTry = FALSE
  /\ thrown = NoErr
  /\ secMsGec = GenerateSecMsGec(0, 0)
  /\ socks = <<>>
  /\ frameCount = 0
  /\ lastFrame = [sock |-> 0, path |-> "none", frame |-> NoFrame]
  /\ delivered = <<>>
  /\ sent = <<>>
  /\ tokens = <<>>
  /\ io = [i \in Invocations |-> 0]

DrmInit ==
  /\ clockSkewSeconds = 0
  /\ now = 0
  /\ drmLog = <<>>

\* the instants at which the clock is read: the first and the last second of
\* each 300-second bucket
Times == {t \in 0..MaxTime : t % BucketSeconds \in {0, BucketSeconds - 1}}

\* the adjustments made to the skew
SkewSteps == {0 - BucketSeconds, 0 - 1, 1, BucketSeconds}

\* time passes
DrmTick ==
  /\ \E t \in Times : t > now /\ now' = t
  /\ UNCHANGED <<clockSkewSeconds, drmLog, streamVars, splitVars, ctorVars, libVars>>

\* DRM.adjustClockSkewSeconds (drm.ts:22-24)
DrmAdjust(skewSeconds) ==
  /\ Len(drmLog) < MaxDrmOps
  /\ clockSkewSeconds' = AdjustClockSkewSeconds(clockSkewSeconds, skewSeconds)
  /\ drmLog' = Append(drmLog, [op |-> "adjust", at |-> now, skew |-> clockSkewSeconds',
                               gec |-> GenerateSecMsGec(0, 0), by |-> skewSeconds])
  /\ UNCHANGED <<now, streamVars, splitVars, ctorVars, libVars>>

\* the Date headers a response carries
DateHeaders == {NoDate, EmptyDate, InvalidDateText} \cup {DateOf(t) : t \in Times}

\* DRM.handleClientResponseError (drm.ts:58-71) called at the instant now
DrmHandle(headers) ==
  /\ Len(drmLog) < MaxDrmOps
  /\ clockSkewSeconds' = HandleClientResponseError(headers, now, clockSkewSeconds).skew
  /\ drmLog' = Append(drmLog, [op |-> "handle", at |-> now, skew |-> clockSkewSeconds',
                               gec |-> GenerateSecMsGec(0, 0), headers |-> headers,
                               err |-> HandleClientResponseError(headers, now, clockSkewSeconds).err])
  /\ UNCHANGED <<now, streamVars, splitVars, ctorVars, libVars>>

\* DRM.generateSecMsGec (drm.ts:80-103) called at the instant now
DrmGenerate ==
  /\ Len(drmLog) < MaxDrmOps
  /\ drmLog' = Append(drmLog, [op |-> "gec",
                               at |-> GetUnixTimestamp(now, clockSkewSeconds),
                               skew |-> clockSkewSeconds,
                               gec |-> GenerateSecMsGec(now, clockSkewSeconds)])
  /\ UNCHANGED <<clockSkewSeconds, now, streamVars, splitVars, ctorVars, libVars>>

\* the check left out
AlreadyCalledNever == FALSE

\* stream(), lines 484-487: the single-use check
AlreadyCalled == state.streamWasCalled

\* the first next() on the generator of invocation i (save() makes it at once)
Start(i) ==
  /\ ctor.pc = "constructed"
  /\ ~Runnable
  /\ inv[i].pc = "created"
  /\ \A j \in 1..(i - 1) : inv[j].pc # "created"
  /\ IF AlreadyCalled
     THEN /\ inv' = [inv EXCEPT ![i] = [pc |-> "failed", err |-> AlreadyStreamed]]
          /\ UNCHANGED <<state, active, pc, inTry>>
     ELSE /\ state' = [state EXCEPT !.streamWasCalled = TRUE]
          /\ inv' = [inv EXCEPT ![i].pc = "running"]
          /\ active' = i
          /\ pc' = "forHead"
          /\ inTry' = FALSE
  /\ UNCHANGED <<texts, thrown, secMsGec, socks, frameCount, lastFrame, delivered,
                 sent, tokens, io, drmVars, splitVars, ctorVars, libVars>>

\* a session run once for a text without chunks, as a do-while would
ForHeadAtLeastOnce ==
  /\ pc = "forHead"
  /\ IF texts = <<>> /\ tokens # <<>>
     THEN /\ pc' = "done"
          /\ inv' = [inv EXCEPT ![active].pc = "done"]
          /\ UNCHANGED <<state, texts, inTry>>
     ELSE /\ state' = [state EXCEPT !.partialText = IF texts = <<>> THEN 0 ELSE Head(texts)]
          /\ texts' = IF texts = <<>> THEN texts ELSE Tail(texts)
          /\ inTry' = TRUE
          /\ pc' = "sessStart"
          /\ UNCHANGED inv
  /\ UNCHANGED <<active, thrown, secMsGec, socks, frameCount, lastFrame, delivered,
                 sent, tokens, io, drmVars, splitVars, ctorVars, libVars>>

\* for (const partialText of this.texts), lines 490-493
ForHead ==
  /\ pc = "forHead"
  /\ IF texts = <<>>
     THEN /\ pc' = "done"
          /\ inv' = [inv EXCEPT ![active].pc = "done"]
          /\ UNCHANGED <<state, texts, inTry>>
     ELSE /\ state' = [state EXCEPT !.partialText = Head(texts)]
          /\ texts' = Tail(texts)
          /\ inTry' = TRUE
          /\ pc' = "sessStart"
          /\ UNCHANGED inv
  /\ UNCHANGED <<active, thrown, secMsGec, socks, frameCount, lastFrame, delivered,
                 sent, tokens, io, drmVars, splitVars, ctorVars, libVars>>

\* streamInternal, line 248: the token is computed from the clock as read at
\* the call; the digest is awaited.  A stream lasts far less than a bucket
\* and never reads a token back, so no time passes between its readings.
SessStart ==
  /\ pc = "sessStart"
  /\ secMsGec' = GenerateSecMsGec(now, clockSkewSeconds)
  /\ tokens' = Append(tokens, [chunk |-> state.partialText, retry |-> ~inTry,
                               gec |-> secMsGec',
                               serverGec |-> GenerateSecMsGec(now + ServerAhead, 0)])
  /\ DidIO(1)
  /\ pc' = "awaitToken"
  /\ UNCHANGED <<state, texts, inv, active, inTry, thrown, socks, frameCount,
                 lastFrame, delivered, sent, drmVars, splitVars, ctorVars, libVars>>

\* lines 249-272: new WebSocket(wsUrl), then await readyPromise
TokenReady ==
  /\ pc = "awaitToken"
  /\ socks' = Append(socks, NewSock(state.partialText, ~inTry, secMsGec))
  /\ DidIO(1)
  /\ pc' = "awaitReady"
  /\ UNCHANGED <<state, texts, inv, active, inTry, thrown, secMsGec, frameCount,
                 lastFrame, delivered, sent, tokens, drmVars, splitVars, ctorVars, libVars>>

\* ws.onopen resolves readyPromise; lines 274-445 then run without a break:
\* both requests are sent, the handlers installed, the promise created, and
\* the loop finds the queue empty and awaits the race
SockOpen ==
  /\ pc = "awaitReady"
  /\ cur > 0
  /\ socks[cur].ws = "connecting"
  /\ socks' = [socks EXCEPT ![cur].ws = "open", ![cur].handlers = TRUE,
                            ![cur].promise = "pending"]
  /\ sent' = sent \o <<[sock |-> cur, path |-> "speech.config", chunk |-> 0],
                       [sock |-> cur, path |-> "ssml", chunk |-> state.partialText]>>
  /\ DidIO(2)
  /\ pc' = "awaitRace"
  /\ UNCHANGED <<state, texts, inv, active, inTry, thrown, secMsGec, frameCount,
                 lastFrame, delivered, tokens, drmVars, splitVars, ctorVars, libVars>>

(***************************************************************************)
(* Socket events.                                                          *)
(***************************************************************************)
\* the offset left out of the end of the timing event
LastDurationOnly(item) == item.duration

\* line 331: the end of the timing event just parsed
LastDurationOffsetOf(item) == item.offset + item.duration

\* the padding left out
TurnEndNoPadding(st) == st.lastDurationOffset

\* lines 334-337: the compensation for the next SSML request
TurnEndCompensation(st) == st.lastDurationOffset + Padding

\* a settled promise settled again
SettleAnew(sk, out) ==
  IF out.act = "turnEnd" THEN [sk EXCEPT !.promise = "resolved"]
  ELSE IF out.act = "reject" THEN [sk EXCEPT !.promise = "rejected", !.perr = out.err]
  ELSE sk

\* resolvePromise / rejectPromise settle messagePromise once
Settle(sk, out) ==
  IF sk.promise # "pending" THEN sk
  ELSE IF out.act = "turnEnd" THEN [sk EXCEPT !.promise = "resolved"]
  ELSE IF out.act = "reject" THEN [sk EXCEPT !.promise = "rejected", !.perr = out.err]
  ELSE sk

\* audioWasReceived set for every queued item
EnqueueAnyItem(sk, item) ==
  [sk EXCEPT !.queue = Append(@, item), !.accepted = Append(@, item),
             !.audioWasReceived = TRUE]

\* lines 328 and 425-426: the item is queued (accepted is the history of it)
Enqueue(sk, item) ==
  [sk EXCEPT !.queue = Append(@, item), !.accepted = Append(@, item),
             !.audioWasReceived = @ \/ (item.type = "audio")]

\* ws.onmessage (lines 306-433) on socket s, whose handlers outlive the
\* session: they are never removed and the socket is closed only at line 469
Frame(s, f) ==
  /\ ~Runnable
  /\ socks[s].ws = "open"
  /\ socks[s].handlers
  /\ LET out == OnMessage(f, state.offsetCompensation)
         item == IF out.act = "push" THEN [seq |-> frameCount + 1] @@ out.item
                 ELSE [seq |-> 0]
         sk == IF out.act = "push" THEN Enqueue(socks[s], item) ELSE Settle(socks[s], out)
         woken == s = cur /\ pc = "awaitRace" /\ sk.promise # "pending"
     IN /\ socks' = [socks EXCEPT ![s] = sk]
        /\ state' = IF out.act = "push" /\ item.type # "audio"
                    THEN [state EXCEPT !.lastDurationOffset = LastDurationOffsetOf(item)]
                    ELSE IF out.act = "turnEnd"
                    THEN [state EXCEPT !.offsetCompensation = TurnEndCompensation(state)]
                    ELSE state
        /\ pc' = IF ~woken THEN pc
                 ELSE IF sk.promise = "resolved" THEN "drain" ELSE "raise"
        /\ thrown' = IF woken /\ sk.promise = "rejected" THEN sk.perr ELSE thrown
  /\ frameCount' = frameCount + 1
  /\ lastFrame' = [sock |-> s, path |-> f.path, frame |-> f]
  /\ UNCHANGED <<texts, inv, active, inTry, secMsGec, delivered, sent, tokens,
                 io, drmVars, splitVars, ctorVars, libVars>>

\* the positions in which the session of the newest socket is under way; the
\* error and close events of a socket whose session is over change nothing
\* the program reads, and are left out
InSession == pc \in {"awaitReady", "awaitRace", "atYield", "atYieldDrain"}

\* an error event: the socket is closed by then.  Before the connection is
\* ready the handler of line 263 rejects readyPromise; afterwards the handler
\* of lines 435-439 rejects messagePromise.
SockError(s, has403) ==
  /\ ~Runnable
  /\ InSession /\ s = cur
  /\ socks[s].ws \in {"connecting", "open"}
  /\ LET sk == IF socks[s].handlers
               THEN Settle(socks[s], Reject(WebSocketError(has403)))
               ELSE socks[s]
         readyRejected == s = cur /\ pc = "awaitReady"
         woken == s = cur /\ pc = "awaitRace"
     IN /\ socks' = [socks EXCEPT ![s] = [sk EXCEPT !.ws = "closed"]]
        /\ pc' = IF readyRejected \/ woken THEN "raise" ELSE pc
        /\ thrown' = IF readyRejected \/ woken THEN WebSocketError(has403) ELSE thrown
  /\ UNCHANGED <<state, texts, inv, active, inTry, secMsGec, frameCount, lastFrame,
                 delivered, sent, tokens, io, drmVars, splitVars, ctorVars, libVars>>

\* a close event without an error event: the only onclose handler is the one
\* of lines 264-268, which rejects readyPromise unless the code is 1000 and
\* does nothing once readyPromise is resolved
SockClose(s, code) ==
  /\ ~Runnable
  /\ InSession /\ s = cur
  /\ socks[s].ws \in {"connecting", "open"}
  /\ socks' = [socks EXCEPT ![s].ws = "closed"]
  /\ LET readyRejected == s = cur /\ pc = "awaitReady" /\ code # 1000
     IN /\ pc' = IF readyRejected THEN "raise" ELSE pc
        /\ thrown' = IF readyRejected THEN WebSocketError(CodeIncludes403(code))
                     ELSE thrown
  /\ UNCHANGED <<state, texts, inv, active, inTry, secMsGec, frameCount, lastFrame,
                 delivered, sent, tokens, io, drmVars, splitVars, ctorVars, libVars>>

(***************************************************************************)
(* The consumer loop of streamInternal, lines 447-476.                     *)
(***************************************************************************)
\* the item shifted off the queue and not yielded
ShiftLost(next) ==
  /\ delivered' = delivered
  /\ socks' = [socks EXCEPT ![cur].queue = Tail(@)]
  /\ pc' = next
  /\ UNCHANGED thrown

\* yield messageQueue.shift()
Shift(next) ==
  /\ delivered' = Append(delivered, [sock |-> cur, item |-> Head(socks[cur].queue)])
  /\ socks' = [socks EXCEPT ![cur].queue = Tail(@)]
  /\ pc' = next
  /\ UNCHANGED thrown

\* the 10 ms timer of line 455 wins the race: done is false
TimerFire ==
  /\ pc = "awaitRace"
  /\ pc' = "loopHead"
  /\ UNCHANGED <<state, texts, inv, active, inTry, thrown, secMsGec, socks, frameCount,
                 lastFrame, delivered, sent, tokens, io, drmVars, splitVars, ctorVars, libVars>>

\* lines 448-457: one turn of while (true)
LoopHead ==
  /\ pc = "loopHead"
  /\ IF socks[cur].queue # <<>> THEN Shift("atYield")
     ELSE /\ pc' = CASE socks[cur].promise = "resolved" -> "drain"
                     [] socks[cur].promise = "rejected" -> "raise"
                     [] OTHER -> "awaitRace"
          /\ thrown' = IF socks[cur].promise = "rejected" THEN socks[cur].perr ELSE thrown
          /\ UNCHANGED <<socks, delivered>>
  /\ UNCHANGED <<state, texts, inv, active, inTry, secMsGec, frameCount, lastFrame,
                 sent, tokens, io, drmVars, splitVars, ctorVars, libVars>>

\* the caller asks for the next item
CallerNext ==
  /\ pc \in {"atYield", "atYieldDrain"}
  /\ pc' = IF pc = "atYield" THEN "loopHead" ELSE "drain"
  /\ UNCHANGED <<state, texts, inv, active, inTry, thrown, secMsGec, socks, frameCount,
                 lastFrame, delivered, sent, tokens, io, drmVars, splitVars, ctorVars, libVars>>

\* the session ended without ws.close()
DrainNoClose ==
  /\ pc = "drain"
  /\ IF socks[cur].queue # <<>> THEN Shift("atYieldDrain")
     ELSE /\ socks' = socks
          /\ pc' = IF socks[cur].audioWasReceived THEN "forHead" ELSE "raise"
          /\ thrown' = IF socks[cur].audioWasReceived THEN thrown ELSE NoAudioReceived
          /\ UNCHANGED delivered
  /\ UNCHANGED <<state, texts, inv, active, inTry, secMsGec, frameCount, lastFrame,
                 sent, tokens, io, drmVars, splitVars, ctorVars, libVars>>

\* lines 458-475: done is true; the queue is drained, the socket closed and
\* the session ends, with NoAudioReceived if no audio was queued
Drain ==
  /\ pc = "drain"
  /\ IF socks[cur].queue # <<>> THEN Shift("atYieldDrain")
     ELSE /\ socks' = [socks EXCEPT ![cur].ws = "closed"]
          /\ pc' = IF socks[cur].audioWasReceived THEN "forHead" ELSE "raise"
          /\ thrown' = IF socks[cur].audioWasReceived THEN thrown ELSE NoAudioReceived
          /\ UNCHANGED delivered
  /\ UNCHANGED <<state, texts, inv, active, inTry, secMsGec, frameCount, lastFrame,
                 sent, tokens, io, drmVars, splitVars, ctorVars, libVars>>

\* any error taken for an authentication failure
Is403Any(error) == TRUE

\* line 496: error instanceof WebSocketError && error.message.includes('403')
Is403(error) == error.cls = "WebSocketError" /\ error.has403

\* a retry on every 403, as a loop around the session would make
ShouldRetryAlways(inTryNow, error) == Is403(error)

\* lines 492-499: the catch clause belongs to the try around the first run
\* only; the second run is made inside the catch clause
ShouldRetry(inTryNow, error) == inTryNow /\ Is403(error)

\* stream(), lines 494-503: an error leaving streamInternal.  Inside the try
\* a 403 starts streamInternal again; anything else, and anything thrown by
\* the second run, leaves stream().
Catch ==
  /\ pc = "raise"
  /\ IF ShouldRetry(inTry, thrown)
     THEN /\ inTry' = FALSE
          /\ pc' = "sessStart"
          /\ thrown' = NoErr
          /\ UNCHANGED inv
     ELSE /\ pc' = "failed"
          /\ inv' = [inv EXCEPT ![active] = [pc |-> "failed", err |-> thrown]]
          /\ UNCHANGED <<inTry, thrown>>
  /\ UNCHANGED <<state, texts, active, secMsGec, socks, frameCount, lastFrame,
                 delivered, sent, tokens, io, drmVars, splitVars, ctorVars, libVars>>

Init == StreamInit /\ DrmInit /\ SplitIdle /\ CtorDone /\ LibIdle

Next ==
  \/ \E i \in Invocations : Start(i)
  \/ ForHead
  \/ SessStart
  \/ TokenReady
  \/ SockOpen
  \/ \E s \in 1..Len(socks) : \E f \in StreamFrames :
       frameCount < MaxFrames /\ Frame(s, f)
  \/ \E s \in 1..Len(socks) : \E has403 \in BOOLEAN : SockError(s, has403)
  \/ \E s \in 1..Len(socks) : \E code \in CloseCodes : SockClose(s, code)
  \/ TimerFire
  \/ LoopHead
  \/ CallerNext
  \/ Drain
  \/ Catch

Spec == Init /\ [][Next]_vars

(***************************************************************************)
(* The chunker on its own: every text and byteLength within the bounds.    *)
(***************************************************************************)
InitSplit == StreamInit /\ DrmInit /\ SplitInit /\ CtorDone /\ texts = <<>> /\ LibIdle

NextSplit ==
  \/ SplitBegin
  \/ SplitTurn
  \/ SplitRest

SpecSplit == InitSplit /\ [][NextSplit]_vars

\* splitTextByByteLength(text, byteLength) is called: lines 158 and 163
SplitCall ==
  /\ splitPc = "idle"
  /\ text' \in {t \in Texts : Len(t) <= MaxLiveLen}
  /\ byteLength' \in 0..MaxBytes
  /\ data' = text'
  /\ splitPc' = "start"
  /\ UNCHANGED <<chunks, spans, lastSplit, streamVars, drmVars, ctorVars, libVars>>

InitSplitLive == StreamInit /\ DrmInit /\ SplitIdle /\ CtorDone /\ texts = <<>> /\ LibIdle

NextSplitLive == SplitCall \/ NextSplit

\* the caller iterates: it asks for the next chunk until the generator is done
SpecSplitLive == InitSplitLive /\ [][NextSplitLive]_vars /\ WF_vars(NextSplit)

\* The generator takes its own steps: the digest of the token resolves, the
\* 10 ms timer fires, and code that can run does run.  The caller
\* iterates with for await and so asks for the next chunk after every yield.
\* Nothing is assumed of the network.
Fairness ==
  /\ WF_vars(ForHead) /\ WF_vars(SessStart) /\ WF_vars(TokenReady)
  /\ WF_vars(TimerFire) /\ WF_vars(LoopHead) /\ WF_vars(Drain) /\ WF_vars(Catch)
  /\ WF_vars(CallerNext)

SpecLive == Init /\ [][Next]_vars /\ Fairness

(***************************************************************************)
(* One stream() call on an instance of one chunk, followed to its end: the *)
(* sessions of that chunk, the retry included, under the same fairness.    *)
(***************************************************************************)
InitSession == Init /\ texts = TextsOf(1)

NextSession ==
  \/ Start(1)
  \/ ForHead
  \/ SessStart
  \/ TokenReady
  \/ SockOpen
  \/ \E s \in 1..Len(socks) : \E f \in StreamFrames :
       frameCount < MaxFrames /\ Frame(s, f)
  \/ \E s \in 1..Len(socks) : \E has403 \in BOOLEAN : SockError(s, has403)
  \/ \E s \in 1..Len(socks) : \E code \in CloseCodes : SockClose(s, code)
  \/ TimerFire
  \/ LoopHead
  \/ CallerNext
  \/ Drain
  \/ Catch

SpecSession == InitSession /\ [][NextSession]_vars /\ Fairness

(***************************************************************************)
(* The DRM class on its own: the clock advances, the skew is adjusted and  *)
(* tokens are derived, in any order.                                       *)
(***************************************************************************)
InitDrm ==
  /\ StreamInit /\ SplitIdle /\ CtorDone /\ texts = <<>> /\ LibIdle
  /\ clockSkewSeconds = 0
  /\ now \in Times
  /\ drmLog = <<>>

NextDrm ==
  \/ DrmTick
  \/ \E skewSeconds \in SkewSteps : DrmAdjust(skewSeconds)
  \/ DrmGenerate
  \/ \E headers \in DateHeaders : DrmHandle(headers)

SpecDrm == InitDrm /\ [][NextDrm]_vars

(***************************************************************************)
(* A SubMaker fed with chunks of every kind and cleared, in any order.     *)
(***************************************************************************)
NextSub ==
  \/ \E msg \in BoundaryChunks \cup {AudioChunk} : Feed(msg)
  \/ Clear

InitSub == StreamInit /\ DrmInit /\ SplitIdle /\ CtorDone /\ LibIdle /\ texts = <<>>

SpecSub == InitSub /\ [][NextSub]_vars

(***************************************************************************)
(* timedeltaToSrtTimestamp applied to a number of whole milliseconds.      *)
(***************************************************************************)
InitStamp ==
  /\ StreamInit /\ DrmInit /\ SplitIdle /\ CtorDone /\ SubIdle /\ SortIdle /\ XmlIdle
  /\ texts = <<>>
  /\ milliseconds \in {Whole(n) : n \in StampInputs}
  /\ stamp = <<>>

NextStamp == Stamp

SpecStamp == InitStamp /\ [][NextStamp]_vars

(***************************************************************************)
(* sortAndReindex called with any subtitles and options and iterated to    *)
(* its end.                                                                *)
(***************************************************************************)
InitSort ==
  /\ StreamInit /\ DrmInit /\ SplitIdle /\ CtorDone /\ SubIdle /\ StampIdle /\ XmlIdle
  /\ texts = <<>>
  /\ SortCalled

NextSort == SortNext

SpecSort == InitSort /\ [][NextSort]_vars

(***************************************************************************)
(* escapeXml applied to a string and unescapeXml to the result.            *)
(***************************************************************************)
InitXml ==
  /\ StreamInit /\ DrmInit /\ SplitIdle /\ CtorDone /\ SubIdle /\ StampIdle /\ SortIdle
  /\ texts = <<>>
  /\ xml \in [str : Strung(MaxPieces), escaped : {NotYet}, unescaped : {NotYet}]

NextXml == Escape \/ Unescape

SpecXml == InitXml /\ [][NextXml]_vars

(***************************************************************************)
(* A call of the constructor with any options, and a first stream() on the *)
(* instance up to its first requests.                                      *)
(***************************************************************************)
InitCtor == StreamInit /\ DrmInit /\ SplitIdle /\ CtorBegin /\ LibIdle

NextCtor ==
  \/ CtorVoice
  \/ CtorRate
  \/ CtorVolume
  \/ CtorPitch
  \/ CtorText
  \/ Start(1)
  \/ ForHead
  \/ SessStart
  \/ TokenReady
  \/ SockOpen

SpecCtor == InitCtor /\ [][NextCtor]_vars

(***************************************************************************)
(* One invocation on a connection that stays up, the service sending any   *)
(* kind of frame.                                                          *)
(***************************************************************************)
NextDemux ==
  \/ Start(1)
  \/ ForHead
  \/ SessStart
  \/ TokenReady
  \/ SockOpen
  \/ \E s \in 1..Len(socks) : \E f \in AllFrames :
       frameCount < MaxDemuxFrames /\ Frame(s, f)
  \/ TimerFire
  \/ LoopHead
  \/ CallerNext
  \/ Drain
  \/ Catch

SpecDemux == Init /\ [][NextDemux]_vars

(***************************************************************************)
(* Properties of stream().                                                 *)
(***************************************************************************)
Range(seq) == {seq[k] : k \in DOMAIN seq}

\* an authentication failure: a WebSocketError whose message includes '403'
AuthFailure(e) == e.cls = "WebSocketError" /\ e.has403

SingleUseInv ==
  /\ state.streamWasCalled = (inv[1].pc # "created")
  /\ \A i \in Invocations :
       i > 1 /\ inv[i].pc # "created" =>
         /\ inv[i] = [pc |-> "failed", err |-> AlreadyStreamed]
         /\ io[i] = 0

\* C1: once one stream() invocation has begun executing, every other
\* invocation that begins fails with AlreadyStreamed and has derived no
\* token, opened no socket and sent no message; streamWasCalled becomes true
\* when the first invocation begins and never returns to false.
C1_SingleUse ==
  /\ []SingleUseInv
  /\ [][state.streamWasCalled => state'.streamWasCalled]_vars

\* a second invocation has failed while the first one, having sent its
\* requests and delivered an item, is suspended at a yield
C1_Witness ==
  /\ inv[2] = [pc |-> "failed", err |-> AlreadyStreamed]
  /\ pc = "atYield"
  /\ io[1] > 0

RECURSIVE AcceptedFrom(_)
\* the items of the accepted frames of sessions s.., in arrival order
AcceptedFrom(s) ==
  IF s > Len(socks) THEN <<>>
  ELSE [k \in DOMAIN socks[s].accepted |->
          [sock |-> s, item |-> socks[s].accepted[k]]] \o AcceptedFrom(s + 1)

Ended == pc \in {"done", "failed"}

\* C2: when stream() ends, the items it delivered are exactly the items of
\* the frames accepted during the stream, in arrival order within and across
\* chunks, none lost, duplicated or reordered.
C2_ExactDelivery == [][~Ended /\ Ended' => delivered' = AcceptedFrom(1)']_vars

AttemptsOf(c) == {k \in DOMAIN tokens : tokens[k].chunk = c}

AttemptsInv ==
  /\ \A c \in 1..MaxChunks : Cardinality(AttemptsOf(c)) <= 2
  /\ \A k \in DOMAIN tokens :
       tokens[k].retry =>
         k > 1 /\ ~tokens[k - 1].retry /\ tokens[k - 1].chunk = tokens[k].chunk
  /\ inv[1].pc = "failed" /\ AuthFailure(inv[1].err) => tokens[Len(tokens)].retry

\* an authentication failure of a chunk's first session is answered by a
\* second session for the same chunk; a failure of the second session
\* leaves stream() as it is
RetryStep ==
  pc = "raise" =>
    IF AuthFailure(thrown) /\ ~tokens[Len(tokens)].retry
    THEN pc' = "sessStart" /\ state'.partialText = state.partialText
    ELSE pc' = "failed" /\ inv'[1] = [pc |-> "failed", err |-> thrown]

\* C3: a chunk's session that fails with a 403 is retried exactly once: no
\* chunk gets a third session, a retry directly follows the first session of
\* the same chunk, and a 403 failure of the retry propagates out of stream().
C3_RetryOnce == []AttemptsInv /\ [][RetryStep]_vars

\* the retry of a chunk has failed with a 403 too and stream() has thrown it
C3_Witness ==
  /\ inv[1].pc = "failed" /\ AuthFailure(inv[1].err)
  /\ Len(tokens) = 2 /\ tokens[2].retry

\* C4: the token of a retry is derived from the clock corrected by the
\* server's date, so it is the token the server computes.
C4_RetryCorrected ==
  \A k \in DOMAIN tokens : tokens[k].retry => tokens[k].gec = tokens[k].serverGec

Quiet ==
  /\ pc' = "failed"
  /\ Len(socks') = Len(socks) /\ tokens' = tokens /\ sent' = sent
  /\ delivered' = delivered /\ texts' = texts /\ io' = io

\* C5: a session failure that is not the first 403 of its chunk propagates out
\* of stream() unchanged, and once stream() has failed no session is opened,
\* no token derived, no message sent and no item delivered.
C5_FailurePropagates ==
  /\ [][pc = "raise" /\ ~(AuthFailure(thrown) /\ ~tokens[Len(tokens)].retry)
          => pc' = "failed" /\ inv'[1] = [pc |-> "failed", err |-> thrown]]_vars
  /\ [][pc = "failed" => Quiet]_vars

\* stream() has failed on an unknown response after delivering an item, with
\* a chunk still waiting, and a frame has arrived since
C5_Witness ==
  /\ pc = "failed" /\ inv[1].err = UnknownResponse
  /\ texts # <<>> /\ delivered # <<>>
  /\ \E s \in DOMAIN socks : socks[s].accepted # <<>> /\ socks[s].queue # <<>>

\* a text frame with a header end and Path turn.end
IsTurnEnd(f) == ~f.bin /\ f.framed /\ f.path = "turn.end"

TimingItems ==
  {it \in UNION {Range(socks[s].accepted) : s \in DOMAIN socks} : it.type # "audio"}

\* offset + duration of the most recent timing event of the stream, 0 if none
LastEventEnd ==
  IF TimingItems = {} THEN 0
  ELSE LET last == CHOOSE it \in TimingItems : \A o \in TimingItems : o.seq <= it.seq
       IN last.offset + last.duration

\* C10: after a turn.end frame offsetCompensation is lastDurationOffset +
\* 8,750,000, where lastDurationOffset is offset + duration of the most recent
\* timing event, or 0 if there has been none.
C10_TurnEnd ==
  IsTurnEnd(lastFrame.frame) =>
    /\ state.lastDurationOffset = LastEventEnd
    /\ state.offsetCompensation = LastEventEnd + 8750000

\* a turn.end that follows a timing event
C10_Witness ==
  /\ IsTurnEnd(lastFrame.frame)
  /\ TimingItems # {}
  /\ state.offsetCompensation = 23750000

\* C11: offsetCompensation never decreases within one stream, whatever
\* frames arrive (offsets and durations being non-negative), across turn.end
\* frames and chunk boundaries; the end of the last timing event plus the
\* padding is never below it.
C11_Monotone ==
  /\ [](state.lastDurationOffset + 8750000 >= state.offsetCompensation)
  /\ [][state'.offsetCompensation >= state.offsetCompensation]_vars

\* a timing event with Offset 0 has arrived after the compensation advanced,
\* and a further turn.end has been handled
C11_Witness ==
  /\ IsTurnEnd(lastFrame.frame)
  /\ \E s \in DOMAIN socks : \E k \in DOMAIN socks[s].accepted :
       /\ socks[s].accepted[k].type = "SentenceBoundary"
       /\ socks[s].accepted[k].offset = 23750000
       /\ state.offsetCompensation = 32500000

\* a step in which ws.onmessage handles a frame
FrameStep == frameCount' = frameCount + 1

\* the frame handled in a FrameStep, and its session before and after
Handled == lastFrame'.frame
Before == socks[lastFrame'.sock]
After == socks'[lastFrame'.sock]

Boundaries == {"WordBoundary", "SentenceBoundary"}

IsMetadata(f) == ~f.bin /\ f.framed /\ f.path = "audio.metadata" /\ f.json

\* the position of the first boundary record of a record list, 0 if none
FirstBoundary(recs) ==
  IF \E k \in DOMAIN recs : recs[k].Type \in Boundaries
  THEN CHOOSE k \in DOMAIN recs :
         /\ recs[k].Type \in Boundaries
         /\ \A j \in 1..(k - 1) : recs[j].Type \notin Boundaries
  ELSE 0

\* the records before position k
Upto(recs, k) == IF k = 0 THEN Range(recs) ELSE {recs[j] : j \in 1..(k - 1)}

\* exactly one item is queued, nothing else of the session changes
QueuedOne(item) ==
  /\ Len(After.accepted) = Len(Before.accepted) + 1
  /\ LET got == After.accepted[Len(After.accepted)]
     IN /\ [k \in DOMAIN item |-> got[k]] = item
        /\ After.queue = Append(Before.queue, got)
        /\ After.accepted = Append(Before.accepted, got)
  /\ After.promise = Before.promise

\* no item is queued, and messagePromise is rejected with err if it is pending
FailsWith(err) ==
  /\ After.accepted = Before.accepted /\ After.queue = Before.queue
  /\ Before.promise = "pending" => After.promise = "rejected" /\ After.perr = err
  /\ Before.promise # "pending" => After.promise = Before.promise

\* C12: an audio.metadata frame whose first boundary record is reached
\* (only SessionEnd records before it) queues exactly one TimingEvent, built
\* from that record: its type, its Offset plus the offsetCompensation in force
\* when the frame arrives, and its Duration; later records produce nothing.
C12_FirstBoundary ==
  [][FrameStep /\ IsMetadata(Handled) /\ FirstBoundary(Handled.recs) > 0
       /\ (\A r \in Upto(Handled.recs, FirstBoundary(Handled.recs)) : r.Type = "SessionEnd")
     => LET r == Handled.recs[FirstBoundary(Handled.recs)]
        IN /\ QueuedOne([type |-> r.Type,
                         offset |-> r.Offset + state.offsetCompensation,
                         duration |-> r.Duration])
           /\ state'.lastDurationOffset
                = r.Offset + state.offsetCompensation + r.Duration]_vars

\* a frame whose boundary record follows a SessionEnd record has arrived when
\* the compensation was 23,750,000 and has given an event at that offset
C12_Witness ==
  /\ IsMetadata(lastFrame.frame)
  /\ Len(lastFrame.frame.recs) = 2 /\ lastFrame.frame.recs[1].Type = "SessionEnd"
  /\ LET log == socks[lastFrame.sock].accepted
     IN /\ log # <<>>
        /\ log[Len(log)].seq = frameCount
        /\ log[Len(log)].offset = 23750000 /\ log[Len(log)].duration = 5000000

\* an audio fragment was accepted in session s
HasAudio(s) == \E k \in DOMAIN socks[s].accepted : socks[s].accepted[k].type = "audio"

\* session s saw its turn end and is over
TurnOver(s) ==
  /\ socks[s].promise = "resolved"
  /\ s < cur \/ pc \in {"forHead", "done", "raise", "failed"}

NoAudioInv ==
  /\ \A s \in DOMAIN socks :
       TurnOver(s) /\ ~HasAudio(s) =>
         /\ s = cur
         /\ pc = "raise" => thrown = NoAudioReceived
         /\ pc = "failed" => inv[1].err = NoAudioReceived
         /\ pc \in {"raise", "failed"}
  /\ \A s \in DOMAIN socks :
       TurnOver(s) /\ HasAudio(s) /\ s = cur => pc \in {"forHead", "done"}
  /\ inv[1].err = NoAudioReceived => TurnOver(cur) /\ ~HasAudio(cur)

\* C13: a session whose turn.end is observed ends stream() with
\* NoAudioReceived if no audio fragment was accepted in that session, and goes
\* on to the next chunk without an error if one was; NoAudioReceived arises
\* in no other way.
C13_NoAudio ==
  /\ []NoAudioInv
  /\ [][pc = "raise" /\ thrown = NoAudioReceived
          => pc' = "failed" /\ inv'[1] = [pc |-> "failed", err |-> NoAudioReceived]]_vars

\* a turn has ended with a timing event delivered and no audio fragment, and
\* stream() has failed
C13_Witness ==
  /\ pc = "failed" /\ inv[1].err = NoAudioReceived
  /\ delivered # <<>>
  /\ socks[cur].ws = "closed"

\* the class of a binary frame with a well-formed length prefix
BinaryClass(f) ==
  IF f.path # "audio" THEN "fail"
  ELSE IF f.ctype = "audio/mpeg" /\ f.payload > 0 THEN "audio"
  ELSE IF f.ctype = "undefined" /\ f.payload = 0 THEN "drop"
  ELSE "fail"

\* C14: a binary frame whose Path is not audio is answered with
\* UnexpectedResponse; Path audio, Content-Type audio/mpeg and a payload queue
\* one audio fragment; Path audio, no Content-Type and no payload change
\* nothing; every other combination is answered with UnexpectedResponse.
C14_BinaryFrames ==
  [][FrameStep /\ Handled.bin /\ Handled.framed
     => CASE BinaryClass(Handled) = "audio" ->
               QueuedOne([type |-> "audio"]) /\ After.audioWasReceived
          [] BinaryClass(Handled) = "drop" -> After = Before /\ state' = state
          [] OTHER -> FailsWith(UnexpectedResponse)]_vars

\* a binary frame with a payload and no Content-Type has failed the stream
C14_Witness ==
  /\ lastFrame.frame.bin /\ lastFrame.frame.framed
  /\ lastFrame.frame.path = "audio" /\ lastFrame.frame.ctype = "undefined"
  /\ lastFrame.frame.payload > 0
  /\ pc = "failed" /\ inv[1].err = UnexpectedResponse

\* C15: an audio.metadata frame holding SessionEnd records only queues no
\* TimingEvent and does not fail the session.
C15_SessionEndIgnored ==
  [][FrameStep /\ IsMetadata(Handled) /\ Handled.recs # <<>>
       /\ (\A r \in Range(Handled.recs) : r.Type = "SessionEnd")
     => After = Before]_vars

KnownPaths == {"audio.metadata", "turn.end", "response", "turn.start"}

\* C16: an audio.metadata frame in which a record of another type than
\* WordBoundary, SentenceBoundary and SessionEnd comes before the first
\* boundary record is answered with UnknownResponse, and so is a text frame
\* whose Path is none of audio.metadata, turn.end, response, turn.start.
C16_UnknownResponse ==
  [][FrameStep /\ ~Handled.bin /\ Handled.framed
       /\ \/ Handled.path \notin KnownPaths
          \/ /\ IsMetadata(Handled)
             /\ \E r \in Upto(Handled.recs, FirstBoundary(Handled.recs)) :
                  r.Type \notin Boundaries \cup {"SessionEnd"}
     => FailsWith(UnknownResponse)]_vars

\* a frame with a Viseme record before its boundary record has failed the
\* stream
C16_Witness ==
  /\ IsMetadata(lastFrame.frame)
  /\ \E k \in DOMAIN lastFrame.frame.recs : lastFrame.frame.recs[k].Type = "Viseme"
  /\ FirstBoundary(lastFrame.frame.recs) > 0
  /\ pc = "failed" /\ inv[1].err = UnknownResponse

\* a frame the rules answer with UnknownResponse or UnexpectedResponse
FailureFrame(f) ==
  \/ f.bin /\ f.framed /\ BinaryClass(f) = "fail"
  \/ ~f.bin /\ f.framed /\ f.path \notin KnownPaths
  \/ /\ IsMetadata(f)
     /\ \E r \in Upto(f.recs, FirstBoundary(f.recs)) :
          r.Type \notin Boundaries \cup {"SessionEnd"}

\* C17: no error is swallowed: stream() does not complete normally once a
\* frame of a failure class has been handled on the open socket of a session,
\* also when the frame comes after turn.end.
C17_NoErrorSwallowed ==
  lastFrame.sock > 0 /\ FailureFrame(lastFrame.frame) => pc # "done"

\* C18: when the socket of a session is closed before turn.end is observed,
\* the pending read fails and stream() terminates: it does not wait forever.
C18_CloseEndsStream ==
  (pc = "awaitRace" /\ socks[cur].ws = "closed" /\ socks[cur].promise = "pending")
    ~> Ended

\* a frame the handler ignores by its Path
IsIgnoredControl(f) == ~f.bin /\ f.path \in {"turn.start", "response"}

\* the frame handled in a FrameStep queued a TimingEvent
QueuedTiming ==
  /\ Len(After.accepted) = Len(Before.accepted) + 1
  /\ After.accepted[Len(After.accepted)].type \in Boundaries

\* C32: a frame that queues a TimingEvent sets lastDurationOffset to the
\* offset plus the duration of that event in the step in which the frame
\* arrives, before anything of it is delivered; binary frames and turn.start
\* and response frames leave lastDurationOffset and offsetCompensation alone;
\* and no frame but a turn.end frame changes offsetCompensation.
C32_FrameEffects ==
  [][FrameStep =>
       /\ QueuedTiming =>
            LET got == After.accepted[Len(After.accepted)]
            IN /\ state'.lastDurationOffset = got.offset + got.duration
               /\ delivered' = delivered
       /\ Handled.bin \/ IsIgnoredControl(Handled) =>
            /\ state'.lastDurationOffset = state.lastDurationOffset
            /\ state'.offsetCompensation = state.offsetCompensation
       /\ ~IsTurnEnd(Handled) =>
            state'.offsetCompensation = state.offsetCompensation]_vars

\* a response frame has arrived after a timing event and a turn.end, and the
\* event of that turn is still in the queue: lastDurationOffset is the end of
\* the event and the compensation is the one turn.end gave
C32_Witness ==
  /\ lastFrame.path = "response" /\ lastFrame.frame.framed
  /\ state.lastDurationOffset = 15000000
  /\ state.offsetCompensation = 23750000
  /\ \E k \in DOMAIN socks[lastFrame.sock].queue :
       socks[lastFrame.sock].queue[k].type = "WordBoundary"

\* C33: at most one socket of a Communicate instance is connecting or open
\* at any time: when the session of the next chunk, or of a retry, creates
\* its socket, every earlier socket is closed.
C33_OneSocket ==
  \A s \in DOMAIN socks : \A t \in DOMAIN socks :
    s < t => socks[s].ws = "closed"

\* the socket of the second chunk is open after the first session ended with
\* turn.end
C33_Witness ==
  /\ Len(socks) = 2 /\ socks[2].ws = "open" /\ ~socks[2].retry
  /\ socks[1].promise = "resolved" /\ socks[1].ws = "closed"

\* the socket of a retry is open after the first attempt failed with a 403
C33_RetryWitness ==
  /\ Len(socks) = 2 /\ socks[2].ws = "open" /\ socks[2].retry
  /\ socks[1].ws = "closed"

\* the text of the instance gave no chunk: none is left and none was taken
ZeroChunks == texts = <<>> /\ state.partialText = 0

\* C38: an instance whose text gives no chunk (empty or all whitespace)
\* streams nothing: stream() derives no token, opens no socket, sends and
\* delivers nothing, raises no error and ends normally at the head of its
\* loop; it still uses up the instance, so that any other call fails with
\* 'stream can only be called once'.
C38_EmptyText ==
  /\ [](ZeroChunks =>
         /\ tokens = <<>> /\ socks = <<>> /\ sent = <<>> /\ delivered = <<>>
         /\ pc \in {"notStarted", "forHead", "done"}
         /\ thrown = NoErr
         /\ pc # "notStarted" =>
              /\ state.streamWasCalled
              /\ \A i \in Invocations :
                   i # active /\ inv[i].pc # "created" =>
                     inv[i].pc = "failed" /\ inv[i].err = AlreadyStreamed)
  /\ [][ZeroChunks /\ pc = "forHead" =>
          pc' = "done" /\ inv'[active].pc = "done" /\ inv'[active].err = NoErr]_vars

\* stream() on an instance without chunks has ended normally, and a second
\* call has failed
C38_Witness ==
  /\ ZeroChunks /\ pc = "done" /\ inv[1].pc = "done"
  /\ inv[2].pc = "failed"

\* the items delivered from socket s, in order
DeliveredOn(s) ==
  LET mine == SelectSeq(delivered, LAMBDA d : d.sock = s)
  IN [k \in DOMAIN mine |-> mine[k].item]

\* the most sockets a stream opens: one per chunk and one per retry
MaxSocks == 2 * MaxChunks

\* the session of socket s is over: every accepted item was delivered and
\* the socket is closed
SessionOver(s) ==
  /\ socks[s].ws = "closed" /\ socks[s].queue = <<>>
  /\ DeliveredOn(s) = socks[s].accepted
  /\ s < cur \/ pc \in {"forHead", "raise", "sessStart", "done", "failed"}

\* the consumer waits: the queue is empty and the turn has not ended
Waiting ==
  /\ pc \in {"awaitRace", "loopHead"}
  /\ socks[cur].queue = <<>> /\ socks[cur].promise = "pending"

\* C31: once turn.end has resolved a session, which it does only when no
\* failing frame came before it, the session ends after the item of every
\* frame accepted until then was delivered; and while the queue is empty and
\* the turn has not ended the consumer delivers nothing and does not end the
\* session, until a socket event arrives.
C31_TurnEndCompletes ==
  /\ \A s \in 1..MaxSocks :
       (s \in DOMAIN socks /\ socks[s].promise = "resolved") ~>
         (s \in DOMAIN socks /\ SessionOver(s))
  /\ [][Waiting /\ socks' = socks =>
          delivered' = delivered /\ pc' \in {"awaitRace", "loopHead"}]_vars

\* the consumer waited on an empty queue, a frame arrived while the caller
\* held the first item, and after turn.end both items were delivered and the
\* session ended
C31_Witness ==
  /\ Len(socks) = 1 /\ socks[1].promise = "resolved" /\ SessionOver(1)
  /\ Len(socks[1].accepted) = 2 /\ pc = "done"

\* C39: a chunk that is retried after an authentication failure reaches the
\* consumer once: nothing was delivered from the attempt that failed, so
\* what is delivered for the chunk is what the retry session accepted.
C39_RetryDeliversOnce ==
  \A s \in DOMAIN socks :
    s > 1 /\ socks[s].retry => DeliveredOn(s - 1) = <<>>

\* the part of C39 that holds: no accepted item is delivered twice
C39_NoItemTwice ==
  \A j \in DOMAIN delivered : \A k \in DOMAIN delivered :
    j # k => delivered[j] # delivered[k]

\* C40: when a failing frame settles a session, the items queued before it
\* are delivered before its error is raised: the error of a rejected
\* messagePromise leaves streamInternal with the queue empty.
C40_DeliveredBeforeRaise ==
  pc = "raise" /\ cur > 0 /\ socks[cur].promise = "rejected" =>
    socks[cur].queue = <<>>

\* the part of C40 that holds: messagePromise is settled once, and neither a
\* later turn.end nor a later failing frame changes its outcome or its error
C40_SettledOnce ==
  [][\A s \in DOMAIN socks :
       socks[s].promise \in {"resolved", "rejected"} =>
         /\ socks'[s].promise = socks[s].promise
         /\ socks'[s].perr = socks[s].perr]_vars

(***************************************************************************)
(* Properties of the constructor.                                          *)
(***************************************************************************)
\* a sign, one or more digits, then the unit
WellFormed(str, unit) ==
  LET n == Len(str) - Len(unit)
  IN /\ n >= 2
     /\ Head(str) \in {"+", "-"}
     /\ SubSeq(str, n + 1, Len(str)) = unit
     /\ Range(SubSeq(str, 2, n)) \subseteq Digits

\* the long form of a voice name: the fixed head, a locale, ', ', a name, ')'
LongVoice(voice) ==
  /\ Len(voice) >= 5
  /\ Head(voice) = VoiceHead /\ voice[Len(voice)] = ")"
  /\ \E k \in 3..(Len(voice) - 2) : voice[k] = ", "

CtorPositions ==
  <<"validateVoice", "validateRate", "validateVolume", "validatePitch", "checkText",
    "constructed">>

\* the constructor has got past position k without throwing
Past(k) == \E j \in (k + 1)..Len(CtorPositions) : ctor.pc = CtorPositions[j]

ValidationErrors ==
  {InvalidVoice, InvalidRate, InvalidVolume, InvalidPitch, TextTypeError}

NoNetwork ==
  /\ pc = "notStarted" /\ socks = <<>> /\ tokens = <<>> /\ sent = <<>>
  /\ \A i \in Invocations : io[i] = 0 /\ inv[i].pc = "created"

\* C19: validation is eager: the constructor gets past a field only if the
\* field passes its format check, a failed check or a text that is no string
\* makes it throw with no network activity before or after, no stream()
\* fails with a validation error, and an instance that streams holds a
\* configuration of which every field is well formed.
C19_EagerValidation ==
  /\ Past(1) => LongVoice(ctor.ttsConfig.voice)
  /\ Past(2) => WellFormed(ctor.ttsConfig.rate, <<"%">>)
  /\ Past(3) => WellFormed(ctor.ttsConfig.volume, <<"%">>)
  /\ Past(4) => WellFormed(ctor.ttsConfig.pitch, <<"H", "z">>)
  /\ ctor.pc = "threw" => ctor.err \in ValidationErrors
  /\ ctor.pc # "constructed" => NoNetwork
  /\ \A i \in Invocations : inv[i].err \notin ValidationErrors

\* a constructor call has thrown on its pitch, the last field validated,
\* the fields before it being well formed
C19_Witness ==
  /\ ctor.pc = "threw" /\ ctor.err = InvalidPitch
  /\ ctor.ttsConfig.pitch = <<"+", "0", "H">>
  /\ ctor.ttsConfig.rate = <<"+", "0", "0", "%">>

\* the messages sent on socket s, in order
SentOn(s) == SelectSeq(sent, LAMBDA m : m.sock = s)

\* the session of socket s has a settled outcome
Settled(s) == socks[s].promise \in {"resolved", "rejected"}

\* the session of socket s, as the sockets and the history show it
SessionOrder(s) ==
  /\ ~socks[s].handlers =>
       SentOn(s) = <<>> /\ socks[s].accepted = <<>> /\ socks[s].promise = "none"
  /\ socks[s].handlers =>
       /\ socks[s].ws # "connecting"
       /\ SentOn(s) = <<[sock |-> s, path |-> "speech.config", chunk |-> 0],
                        [sock |-> s, path |-> "ssml", chunk |-> socks[s].chunk]>>
  /\ (lastFrame.sock = s \/ socks[s].accepted # <<>> \/ Settled(s)) => Len(SentOn(s)) = 2

\* C30: on every socket nothing is sent before the connection is open, then
\* one speech.config and one ssml message with the chunk's text are sent, in
\* that order, before any frame is handled; the session is resolved by a
\* turn.end frame only and ends normally only when resolved; an outcome once
\* settled, resolved or rejected, never changes.
C30_SessionOrder ==
  /\ [](\A s \in DOMAIN socks : SessionOrder(s))
  /\ [][\A s \in DOMAIN socks :
          /\ ~Settled(s) /\ socks'[s].promise = "resolved" =>
               lastFrame'.sock = s /\ IsTurnEnd(lastFrame'.frame)
          /\ Settled(s) =>
               socks'[s].promise = socks[s].promise /\ socks'[s].perr = socks[s].perr
          /\ s = cur /\ pc = "drain" /\ pc' = "forHead" => socks[s].promise = "resolved"
          /\ Len(SentOn(s)') > Len(SentOn(s)) => socks[s].ws = "connecting" /\ socks'[s].ws = "open"]_vars

\* the session of a chunk was rejected after both requests were sent, and
\* the session that retried it sent both again, took frames, was resolved by
\* turn.end and closed its socket
C30_Witness ==
  /\ Len(socks) = 2 /\ socks[2].retry
  /\ socks[1].promise = "rejected" /\ Len(SentOn(1)) = 2
  /\ socks[2].promise = "resolved" /\ socks[2].ws = "closed" /\ Len(SentOn(2)) = 2
  /\ socks[2].accepted # <<>>
  /\ pc = "done"

(***************************************************************************)
(* Properties of DRM.                                                      *)
(***************************************************************************)
Derivations == {k \in DOMAIN drmLog : drmLog[k].op = "gec"}

\* the 300-second bucket a time falls in
BucketOf(t) ==
  CHOOSE q \in (0 - MaxDrmOps - 1)..(MaxTime \div 300 + MaxDrmOps + 1) :
    q * 300 <= t /\ t < (q + 1) * 300

\* C20: two token derivations whose skew-corrected times fall in the same
\* 300-second bucket hash the same input and so return the same token, the
\* skew being unchanged between them or not; derivations in different
\* buckets hash different inputs.
C20_TokenDeterminism ==
  \A i, j \in Derivations :
    (BucketOf(drmLog[i].at) = BucketOf(drmLog[j].at)) <=> (drmLog[i].gec = drmLog[j].gec)

\* with the skew unchanged, a token was derived in the first second of a
\* bucket, again in its last second, and again in the next bucket
C20_Witness ==
  /\ Len(drmLog) = 3 /\ Derivations = {1, 2, 3}
  /\ drmLog[1].at = 300 /\ drmLog[2].at = 599 /\ drmLog[3].at = 600
  /\ drmLog[1].gec = drmLog[2].gec /\ drmLog[2].gec # drmLog[3].gec

\* the skew before the k-th operation of the log
SkewBefore(k) == IF k = 1 THEN 0 ELSE drmLog[k - 1].skew

Adjustments == {k \in DOMAIN drmLog : drmLog[k].op = "adjust"}
Handled403s == {k \in DOMAIN drmLog : drmLog[k].op = "handle"}

C22_BadDateFails ==
  \A k \in Handled403s :
    drmLog[k].headers.kind # "date" =>
      drmLog[k].err # NoDrmError /\ drmLog[k].skew = SkewBefore(k)

\* with a skew other than zero, a response without a Date header and one with
\* an unparseable Date header were handled
C22_Witness ==
  /\ Len(drmLog) = 3
  /\ drmLog[1].op = "adjust"
  /\ drmLog[2].op = "handle" /\ drmLog[2].headers = NoDate /\ drmLog[2].err = NoDateError
  /\ drmLog[3].op = "handle" /\ drmLog[3].headers = InvalidDateText
  /\ drmLog[3].err = ParseDateError
  /\ clockSkewSeconds = drmLog[1].skew /\ clockSkewSeconds # 0

\* an '&' of bytes that no ';' follows
UnterminatedAmp(bytes) ==
  \E i \in DOMAIN bytes :
    bytes[i] = AMP /\ \A j \in (i + 1)..Len(bytes) : bytes[j] # SEMI

\* the split points the policy allows in a buffer longer than the limit: within
\* the limit, behind a whole character and behind no unterminated '&'
ValidSplitPoints(buffer, limit) ==
  {k \in 1..limit : /\ ValidUtf8(SubSeq(buffer, 1, k))
                    /\ ~UnterminatedAmp(SubSeq(buffer, 1, k))}

\* C29: a turn of the loop that finds no valid split point in its buffer
\* fails the split, and neither yields a chunk nor goes on.
C29_ChunkingError ==
  lastSplit.of # <<>> /\ ValidSplitPoints(lastSplit.of, byteLength) = {} =>
    splitPc = "failed"

(***************************************************************************)
(* Properties of SubMaker.                                                 *)
(***************************************************************************)
\* what the SubMaker held before the k-th call of the log
CuesBefore(k) == IF k = 1 THEN <<>> ELSE subLog[k - 1].cues
TypeBefore(k) == IF k = 1 THEN "null" ELSE subLog[k - 1].type

Feeds == {k \in DOMAIN subLog : subLog[k].op = "feed"}
Accepted == {k \in Feeds : subLog[k].err = NoSubError}
IsBoundary(msg) == msg.type \in {"WordBoundary", "SentenceBoundary"}

\* the value of a decimal number in ten-thousandths of a millisecond
Ticks(ms) == ms.whole * 10000 + ms.frac

\* C23: feed turns each accepted event into exactly one cue, appended, with
\* start = offset / 10000 ms, end = (offset + duration) / 10000 ms, content =
\* the event text and index = the number of cues held before + 1; offset
\* 10,000,000 with duration 5,000,000 gives start 1000 and end 1500.
C23_FeedMakesCue ==
  \A k \in Accepted :
    LET msg == subLog[k].msg
        held == CuesBefore(k)
        now1 == subLog[k].cues
        cue == now1[Len(now1)]
    IN /\ Len(now1) = Len(held) + 1
       /\ SubSeq(now1, 1, Len(held)) = held
       /\ cue.index = IndexOf(Len(held) + 1)
       /\ Ticks(cue.start) = msg.offset /\ cue.start.frac \in 0..9999
       /\ Ticks(cue.end) = msg.offset + msg.duration /\ cue.end.frac \in 0..9999
       /\ cue.content = msg.text
       /\ (msg.offset = 10000000 /\ msg.duration = 5000000 =>
             cue.start = [whole |-> 1000, frac |-> 0] /\ cue.end = [whole |-> 1500, frac |-> 0])

\* the event of the example was accepted as the second cue
C23_Witness ==
  /\ Len(cues) = 2
  /\ cues[2] = SubtitleClass(IndexOf(2), [whole |-> 1000, frac |-> 0],
                              [whole |-> 1500, frac |-> 0], <<"a">>)
  /\ cues[1].start = [whole |-> 1, frac |-> 2345]

\* the events accepted since construction or the last clear()
RECURSIVE HeldEvents(_)
HeldEvents(k) ==
  IF k = 0 \/ subLog[k].op = "clear" THEN <<>>
  ELSE IF subLog[k].err = NoSubError THEN Append(HeldEvents(k - 1), subLog[k].msg)
  ELSE HeldEvents(k - 1)

\* C24: the cues held are those of the events accepted since construction
\* or the last clear(), all of one kind, the recorded one; an event of the
\* other kind and an item that is no boundary fail and leave the cues and the
\* recorded kind as they were; with nothing recorded, as after clear(), an
\* event of either kind is accepted.
C24_OneKind ==
  /\ Len(HeldEvents(Len(subLog))) = Len(cues)
  /\ \A e \in DOMAIN cues : HeldEvents(Len(subLog))[e].type = kind
  /\ (cues = <<>>) <=> (kind = "null")
  /\ \A k \in Feeds :
       LET msg == subLog[k].msg
       IN /\ ~IsBoundary(msg) => subLog[k].err = InvalidTypeError
          /\ IsBoundary(msg) /\ TypeBefore(k) \notin {"null", msg.type} =>
               subLog[k].err = MismatchError
          /\ IsBoundary(msg) /\ TypeBefore(k) \in {"null", msg.type} =>
               subLog[k].err = NoSubError
          /\ subLog[k].err # NoSubError =>
               subLog[k].cues = CuesBefore(k) /\ subLog[k].type = TypeBefore(k)
  /\ \A k \in DOMAIN subLog :
       subLog[k].op = "clear" => subLog[k].cues = <<>> /\ subLog[k].type = "null"

\* a word was accepted, a sentence was refused, the SubMaker was cleared and
\* then a sentence was accepted
C24_Witness ==
  /\ Len(subLog) = 4
  /\ subLog[1].err = NoSubError /\ subLog[1].type = "WordBoundary"
  /\ subLog[2].msg.type = "SentenceBoundary" /\ subLog[2].err = MismatchError
  /\ subLog[3].op = "clear"
  /\ subLog[4].msg.type = "SentenceBoundary" /\ subLog[4].err = NoSubError
  /\ kind = "SentenceBoundary" /\ Len(cues) = 1

(***************************************************************************)
(* Properties of srt-composer.                                             *)
(***************************************************************************)
\* the number a string of decimal digits writes
RECURSIVE ValueOf(_)
ValueOf(str) ==
  IF str = <<>> THEN 0
  ELSE ValueOf(SubSeq(str, 1, Len(str) - 1)) * 10 +
       (CHOOSE d \in 0..9 : DigitChars[d + 1] = str[Len(str)])

AllDigits(str) == \A k \in DOMAIN str : \E d \in 1..10 : DigitChars[d] = str[k]

\* C27: for a non-negative integer ms the timestamp reads HH:MM:SS,mmm with
\* HH = ms div 3,600,000 in two digits or more, never wrapped at 24,
\* MM = (ms div 60,000) mod 60, SS = (ms div 1000) mod 60 and mmm = ms mod
\* 1000, each padded with zeros; 0, 65000 and 3661500 give the three
\* timestamps of the examples.
C27_Timestamp ==
  stamp # <<>> =>
    LET ms == milliseconds.whole
        n == Len(stamp)
        hh == SubSeq(stamp, 1, n - 10)
        mm == SubSeq(stamp, n - 8, n - 7)
        ss == SubSeq(stamp, n - 5, n - 4)
        mmm == SubSeq(stamp, n - 2, n)
    IN /\ n >= 12
       /\ stamp[n - 9] = ":" /\ stamp[n - 6] = ":" /\ stamp[n - 3] = ","
       /\ AllDigits(hh) /\ AllDigits(mm) /\ AllDigits(ss) /\ AllDigits(mmm)
       /\ Len(hh) = 2 \/ hh[1] # "0"
       /\ ValueOf(hh) = ms \div 3600000
       /\ ValueOf(mm) = (ms \div 60000) % 60
       /\ ValueOf(ss) = (ms \div 1000) % 60
       /\ ValueOf(mmm) = ms % 1000
       /\ (ms = 0 => stamp = <<"0", "0", ":", "0", "0", ":", "0", "0", ",", "0", "0", "0">>)
       /\ (ms = 65000 => stamp = <<"0", "0", ":", "0", "1", ":", "0", "5", ",", "0", "0", "0">>)
       /\ (ms = 3661500 => stamp = <<"0", "1", ":", "0", "1", ":", "0", "1", ",", "5", "0", "0">>)

\* a time of more than a day, with three digits of hours, was written
C27_Witness ==
  /\ milliseconds = Whole(((MaxHours * 3600 + 59 * 60 + 59) * 1000) + 999)
  /\ stamp # <<>> /\ Len(stamp) > 12
  /\ SubSeq(stamp, Len(stamp) - 9, Len(stamp)) = <<":", "5", "9", ":", "5", "9", ",", "9", "9", "9">>

\* the sort key of a subtitle as passed: start, end, index with null as 0
KeyLeq(a, b) ==
  \/ TicksOf(a.start) < TicksOf(b.start)
  \/ /\ a.start = b.start
     /\ \/ TicksOf(a.end) < TicksOf(b.end)
        \/ a.end = b.end /\ IndexOrZero(a.index) <= IndexOrZero(b.index)

\* C25: the subtitles yielded are in ascending order of (start, end, index)
\* as passed, a null index counting as 0, none is yielded twice, and the k-th
\* one yielded carries the index startIndex + k - 1, whatever the order and
\* the indexes passed and whichever subtitles were skipped.
C25_SortedAndNumbered ==
  /\ \A k, l \in DOMAIN yielded :
       k < l => yielded[k] # yielded[l] /\ KeyLeq(passed[yielded[k]], passed[yielded[l]])
  /\ \A k \in DOMAIN yielded :
       subtitles[yielded[k]].index = IndexOf(args.startIndex + k - 1)

\* passed out of order, the first in order skipped, the other two, which tie
\* on start and end, yielded with the indexes 5 and 6 in place of null and 1
C25_Witness ==
  /\ gen.pc = "done" /\ args.startIndex = 5 /\ args.skip
  /\ passed = <<SubtitleClass(IndexOf(1), Whole(1000), Whole(2000), <<"a">>),
                 SubtitleClass(IndexOf(1), Whole(0 - 1), Whole(1000), <<"a">>),
                 SubtitleClass(NullIndex, Whole(1000), Whole(2000), <<"a">>)>>
  /\ yielded = <<3, 1>>
  /\ subtitles[3].index = IndexOf(5) /\ subtitles[1].index = IndexOf(6)

\* empty or made of white space only
Blank(str) == \A k \in DOMAIN str : str[k] \in WhiteSpace

\* the subtitles the claim has dropped
Dropped(sub) ==
  \/ Blank(sub.content)
  \/ sub.start.whole < 0
  \/ sub.start = sub.end
  \/ TicksOf(sub.start) > TicksOf(sub.end)

\* C26: with skip=true exactly the subtitles whose content is empty or white
\* space only, whose start is below 0 or whose start is not before its end
\* are dropped, and every other one is yielded; with skip=false none is
\* dropped.
C26_SkipExactly ==
  /\ \A k \in DOMAIN yielded : args.skip => ~Dropped(passed[yielded[k]])
  /\ gen.pc = "done" =>
       \A ref \in DOMAIN passed :
         (\E k \in DOMAIN yielded : yielded[k] = ref) <=> ~(args.skip /\ Dropped(passed[ref]))

\* with skip=true a subtitle with start = end was dropped between two that
\* were kept, one of them with white space around its content
C26_Witness ==
  /\ gen.pc = "done" /\ args.skip
  /\ Len(passed) = 3 /\ yielded = <<3, 1>>
  /\ passed[2] = SubtitleClass(IndexOf(6), Whole(1000), Whole(1000), <<"a">>)
  /\ passed[3].content = <<" ", "a", " ">>

(***************************************************************************)
(* Properties of escapeXml and unescapeXml.                                *)
(***************************************************************************)
\* C28: unescapeXml(escapeXml(s)) = s for every string s of the characters
\* & < > " ' and ordinary ones, strings that hold the text of an entity such
\* as '&amp;' or '&lt;' included; and the escaped string holds none of
\* < > " ' any more.
C28_RoundTrip ==
  /\ xml.unescaped # NotYet => xml.unescaped = xml.str
  /\ xml.escaped # NotYet =>
       \A k \in DOMAIN xml.escaped : xml.escaped[k] \notin {"<", ">", "\"", "'"}

\* the string '<&amp;' was escaped to '&lt;&amp;amp;' and came back
C28_Witness ==
  /\ xml.str = <<"<">> \o AmpEntity
  /\ xml.escaped = LtEntity \o <<"&", "a", "m", "p", ";", "a", "m", "p", ";">>
  /\ xml.unescaped = xml.str

(***************************************************************************)
(* Properties of splitTextByByteLength().                                  *)
(***************************************************************************)
RECURSIVE Flatten(_)
Flatten(seqs) == IF seqs = <<>> THEN <<>> ELSE Head(seqs) \o Flatten(Tail(seqs))

NotWhitespace(b) == ~IsWhitespace(b)

\* C6: every chunk is at most byteLength bytes long.
C6_ChunkWithinLimit == \A k \in DOMAIN chunks : Len(chunks[k]) <= byteLength

\* C7: the chunks, concatenated, are the input with nothing but whitespace
\* removed: no other byte is dropped, added or moved.
C7_OnlyWhitespaceRemoved ==
  splitPc = "done" =>
    SelectSeq(Flatten(chunks), NotWhitespace) = SelectSeq(text, NotWhitespace)

\* an entity reference at bytes i..j of text: '&', a name, ';'
EntityAt(i, j) ==
  /\ j > i + 1
  /\ text[i] = AMP /\ text[j] = SEMI
  /\ \A k \in (i + 1)..(j - 1) : text[k] \notin {AMP, SEMI} /\ ~IsWhitespace(text[k])

Entities == {e \in (1..Len(text)) \X (1..Len(text)) : EntityAt(e[1], e[2])}

\* the last '&' before the split point p of bytes is terminated before p
Terminated(bytes, p) ==
  \A a \in 1..p : bytes[a] = AMP /\ (\A k \in (a + 1)..p : bytes[k] # AMP)
                    => \E k \in (a + 1)..p : bytes[k] = SEMI

\* C8: no chunk boundary falls inside an entity reference: an entity of the
\* input is never cut by the bytes taken off so far, every entity taken off
\* lies whole in one chunk, and a split point follows no unterminated '&': one
\* that would is moved back onto the '&'.
C8_EntityWhole ==
  /\ \A e \in Entities :
       /\ ~(e[1] <= consumed /\ consumed < e[2])
       /\ e[2] <= consumed =>
            \E k \in DOMAIN spans : spans[k][1] <= e[1] /\ e[2] <= spans[k][2]
  /\ lastSplit.adj <= lastSplit.cand
  /\ lastSplit.adj < lastSplit.cand => lastSplit.of[lastSplit.adj + 1] = AMP
  /\ Terminated(lastSplit.of, lastSplit.adj)

\* a split point has been moved back to an unterminated '&' in a text
\* that holds an entity
C8_Witness == lastSplit.adj < lastSplit.cand /\ Entities # {}

\* C9: every chunk is well-formed UTF-8.
C9_ChunkUtf8 == \A k \in DOMAIN chunks : ValidUtf8(chunks[k])

\* a text of multibyte characters, longer than the limit and without a
\* newline or space, has been split
C9_Witness ==
  /\ splitPc = "done" /\ chunks # <<>>
  /\ Len(text) > byteLength /\ byteLength > 0
  /\ Lead2 \in Range(text)
  /\ \A k \in DOMAIN text : ~IsWhitespace(text[k])


\* the split point the policy names for a buffer longer than the limit: the
\* rightmost newline in the first limit bytes, else the rightmost space in
\* them, else the longest prefix of at most limit bytes that is valid UTF-8
PolicySplit(buffer, limit) ==
  LET window == 0..(limit - 1)
      newlines == {i \in window : At(buffer, i) = NL}
      spaces == {i \in window : At(buffer, i) = SP}
  IN IF newlines # {} THEN SetMax(newlines)
     ELSE IF spaces # {} THEN SetMax(spaces)
     ELSE SetMax({k \in 0..limit : ValidUtf8(SubSeq(buffer, 1, k))})

\* C34: in every turn of the loop the candidate split point is the rightmost
\* newline within the first byteLength bytes, else the rightmost space within
\* them, else the rightmost offset within them behind a valid UTF-8 prefix;
\* no byte beyond the first byteLength bytes is considered.
C34_SplitPolicy ==
  lastSplit.of # <<>> => lastSplit.cand = PolicySplit(lastSplit.of, byteLength)

\* the part of C34 that holds: a newline or space within the first byteLength
\* bytes is the candidate, the newline first
C34_Preferred ==
  lastSplit.of # <<>>
    /\ (\E i \in 0..(byteLength - 1) : At(lastSplit.of, i) \in {NL, SP})
    => lastSplit.cand = PolicySplit(lastSplit.of, byteLength)

\* C35: every chunk is non-empty and neither starts nor ends with a space,
\* tab, newline or carriage return; a text that is empty or all whitespace
\* gives no chunk, and a text of exactly byteLength bytes, none of them
\* whitespace, gives itself as the only chunk.
C35_Trimmed ==
  /\ \A k \in DOMAIN chunks :
       /\ chunks[k] # <<>>
       /\ Head(chunks[k]) \notin {SP, TAB, NL, CR}
       /\ chunks[k][Len(chunks[k])] \notin {SP, TAB, NL, CR}
  /\ splitPc = "done" /\ Range(text) \subseteq {SP, TAB, NL, CR} => chunks = <<>>
  /\ splitPc = "done" /\ Len(text) = byteLength
       /\ Range(text) \cap {SP, TAB, NL, CR} = {} => chunks = <<text>>

\* a text that starts with a tab and ends with a space and a newline was
\* split into two chunks
C35_Witness ==
  /\ splitPc = "done" /\ Len(chunks) = 2
  /\ Len(text) = MaxLen /\ text[1] = TAB
  /\ text[MaxLen - 1] = SP /\ text[MaxLen] = NL

\* a text of nothing but whitespace, longer than the limit, gave no chunk
C35_BlankWitness ==
  /\ splitPc = "done" /\ chunks = <<>>
  /\ Len(text) > byteLength /\ TAB \in Range(text) /\ SP \in Range(text)

\* a text of exactly byteLength bytes without whitespace is the only chunk
C35_ExactFitWitness ==
  /\ splitPc = "done" /\ chunks = <<text>>
  /\ Len(text) = byteLength /\ byteLength = MaxBytes

\* C36: iterating splitTextByByteLength comes to an end for every text and
\* every byteLength: each turn of the loop leaves the remaining buffer at
\* least one byte shorter, also when the split point is 0.
C36_Terminates ==
  /\ [][splitPc = "loop" /\ splitPc' = "loop" => Len(data') < Len(data)]_vars
  /\ splitPc = "start" ~> splitPc \in {"done", "failed"}

\* the split of a text longer than the limit has ended after a turn whose
\* split point was 0
C36_Witness ==
  /\ splitPc = "done" /\ byteLength > 0 /\ Len(text) = MaxLiveLen
  /\ lastSplit.of # <<>> /\ lastSplit.adj = 0

(***************************************************************************)
(* Properties of sortAndReindex() on the caller's objects.                 *)
(***************************************************************************)
\* C37: sortAndReindex called with inPlace = false leaves the subtitle
\* objects it was given as they were: index, start, end and content.
C37_CallerUntouched == ~args.inPlace => subtitles = passed

\* the part of C37 that holds: start, end and content are never changed,
\* and a subtitle that is skipped keeps its index
C37_TimesAndContentKept ==
  /\ \A k \in DOMAIN subtitles :
       /\ subtitles[k].start = passed[k].start /\ subtitles[k].end = passed[k].end
       /\ subtitles[k].content = passed[k].content
       /\ k \notin Range(yielded) => subtitles[k].index = passed[k].index

=============================================================================
